---- MODULE Spec2Model ----
(***************************************************************************)
(* Model of the package lifecycle controller of snakepit                   *)
(* (src/snakepit_handler.py, class SnakepitHandler).                       *)
(*                                                                         *)
(* The handler is synchronous: every public method runs to completion      *)
(* before the next one starts, so each method is one action.  External     *)
(* processes (container engine, venv/pip in the sandbox, the installer),   *)
(* the file system and the history file are the environment: their         *)
(* outcomes are inputs of the actions, drawn with \E.                      *)
(*                                                                         *)
(* The validation framework (src/validation_framework.py, class            *)
(* ValidationFramework) is modelled beside it: the generated test driver,  *)
(* validate_package, the security scan and the test templates.             *)
(* The validate-only flows built on the handler, validate_only of          *)
(* SmartSnakepitIntegration and cmd_validate of SnakepitCLI, are composite *)
(* calls like handle_package.                                              *)
(***************************************************************************)
EXTENDS Integers, Sequences, FiniteSets, TLC

\* ------------------------------------------------------------------ bounds
\* Number of handler calls explored in one behaviour.
MaxSteps == 4
\* Number of PackageMetadata objects created in one behaviour (ingest calls).
MaxRecords == 2

Names == {"pkg"}
Versions == {"", "1.0"}

\* ------------------------------------------------------- program constants
\* PackageStatus values (the enum's .value strings).
PENDING == "pending"
INGESTING == "ingesting"
TESTING == "testing"
COLLABORATING == "collaborating"
FAILED == "failed"
APPROVED == "approved"
CONSCRIPTED == "conscripted"
DESTROYED == "destroyed"

PackageStatus ==
  {PENDING, INGESTING, TESTING, COLLABORATING, FAILED, APPROVED, CONSCRIPTED, DESTROYED}

\* _save_package_history keeps only the last 1000 entries.
HistoryCap == 1000

\* self.container_engine: None, or the first engine whose --version succeeds.
NoEngine == "none"
Engines == {NoEngine, "podman", "docker"}

\* What the machine answers to `podman --version` and to `docker --version`:
\* TRUE is exit status 0; FALSE is a non-zero status, FileNotFoundError or
\* TimeoutExpired.
VersionChecks == [podman : BOOLEAN, docker : BOOLEAN]

\* _detect_container_engine looking for docker first.
DetectDockerFirst(checks) ==
  IF checks.docker THEN "docker"
  ELSE IF checks.podman THEN "podman" ELSE NoEngine

\* _detect_container_engine() -> Optional[str]: for engine in ['podman',
\* 'docker'], the first whose version check ends with status 0.
DetectContainerEngine(checks) ==
  IF checks.podman THEN "podman"
  ELSE IF checks.docker THEN "docker" ELSE NoEngine

\* "no record": active_packages has no key for the name.
NoId == 0

VARIABLES
  version_checks,    \* what `podman --version` and `docker --version` answered
  container_engine,  \* self.container_engine, fixed at construction
  dry_run,           \* self.config['dry_run']
  active_packages,   \* name -> sandbox_id of the record held for it, or NoId
  pkgs,              \* every PackageMetadata created so far, indexed by sandbox_id
  status_log,        \* per record, every value assigned to .status, in order
  dirs,              \* sandbox ids whose directory sandbox_dir/<id> exists
  images,            \* sandbox ids whose image snakepit-test-<id> exists
  history,           \* contents of the history file (list of entries)
  archived,          \* every entry ever written to the history file, in order
  dependencies,      \* the 'dependencies' list of snakepit.toml
  installs,          \* installer invocations so far: [id, spec, status]
  sandbox_installs,  \* pip installs in a sandbox so far: [id, spec]
  last,              \* the handler call just made: operation, argument, result
  steps,             \* number of handler calls made
  vf,                \* the ValidationFramework call just made, with its result
  call,              \* a handler call seen process by process: what it waits for
  wk,                \* two workers calling one handler: each one's place and locals
  test_templates,    \* ValidationFramework.test_templates: template name -> text
  scripts            \* the generate_test_script calls made: arguments and text

vars == <<version_checks, container_engine, dry_run, active_packages, pkgs,
          status_log, dirs, images, history, archived, dependencies, installs,
          sandbox_installs, last, steps, vf, call, wk, test_templates, scripts>>

\* ----------------------------------------------------------------- helpers
\* package_spec = f"{name}=={version}" if version else name
PackageSpec(name, version) ==
  IF version # "" THEN <<name, "==", version>> ELSE <<name>>

\* _update_dependency_graph's specifier: f"{name}>={version}" if version else name
DependencySpec(name, version) ==
  IF version # "" THEN <<name, ">=", version>> ELSE <<name>>

\* PackageMetadata whose sandbox_id default is evaluated once, for the class.
PackageMetadataSharedDefault(name, version, id) ==
  [name |-> name, version |-> version, status |-> INGESTING, sandbox_id |-> 1,
   test_time |-> FALSE, install_time |-> FALSE,
   error_log |-> <<>>, success_log |-> <<>>, validation_results |-> {}]

\* PackageMetadata(name=..., version=..., status=INGESTING): a fresh object with
\* a fresh uuid4 sandbox_id and empty logs.
PackageMetadata(name, version, id) ==
  [name |-> name, version |-> version, status |-> INGESTING, sandbox_id |-> id,
   test_time |-> FALSE, install_time |-> FALSE,
   error_log |-> <<>>, success_log |-> <<>>, validation_results |-> {}]

\* The handler's state as one value, so that methods compose (a method that
\* calls another applies its operator).  ret is the value the method returns;
\* raised tells whether an exception left it; procs is the set of external
\* processes the call started; calls lists the primitives a composite method
\* called, each with what it returned.
St ==
  [active_packages |-> active_packages, pkgs |-> pkgs, status_log |-> status_log,
   dirs |-> dirs, images |-> images, history |-> history, archived |-> archived,
   dependencies |-> dependencies, installs |-> installs,
   sandbox_installs |-> sandbox_installs,
   ret |-> FALSE, raised |-> FALSE, procs |-> {}, calls |-> <<>>]

\* pkg_meta.status = st
SetStatus(s, id, st) ==
  [s EXCEPT !.pkgs[id].status = st,
            !.status_log[id] = Append(@, st)]

\* pkg_meta.error_log.append(msg)
LogError(s, id, msg) == [s EXCEPT !.pkgs[id].error_log = Append(@, msg)]

\* pkg_meta.success_log.append(msg)
LogSuccess(s, id, msg) == [s EXCEPT !.pkgs[id].success_log = Append(@, msg)]

\* subprocess.run([...]) was called for process kind p
Started(s, p) == [s EXCEPT !.procs = @ \cup {p}]

\* ----------------------------------------------------------------- ingest
\* The sandbox creation's own package_spec (the same expression as in
\* conscript_install), written into the Dockerfile's `RUN pip install` line
\* or given to the venv's pip.
SandboxPipInstall(s, id) ==
  [s EXCEPT !.sandbox_installs =
              @ \cup {[id |-> id,
                       spec |-> PackageSpec(s.pkgs[id].name, s.pkgs[id].version)]}]

\* Outcome of creating the sandbox: the build / venv+pip commands end with
\* status 0 ("ok"), with a non-zero status ("nonzero"), or raise (timeout,
\* spawn failure, file write failure: "error"); "mkdir_error" is
\* sandbox_path.mkdir raising in ingest itself.
CreateOutcomes == {"ok", "nonzero", "error", "mkdir_error"}

\* _create_container_sandbox(pkg_meta, sandbox_path) -> bool (in s.ret)
CreateContainerSandbox(s, id, out) ==
  LET b == Started(SandboxPipInstall(s, id), "build") IN
  CASE out = "ok" ->
         [LogSuccess(b, id, "Container sandbox created successfully")
            EXCEPT !.images = @ \cup {id}, !.ret = TRUE]
    [] out = "nonzero" ->
         [LogError(b, id, "Container build failed") EXCEPT !.ret = FALSE]
    [] OTHER ->
         [LogError(b, id, "Container sandbox creation failed") EXCEPT !.ret = FALSE]

\* _create_venv_sandbox(pkg_meta, sandbox_path) -> bool (in s.ret)
CreateVenvSandbox(s, id, out) ==
  LET b == Started(Started(SandboxPipInstall(s, id), "venv"), "sandbox_pip") IN
  CASE out = "ok" ->
         [LogSuccess(b, id, "Virtual environment sandbox created successfully")
            EXCEPT !.pkgs[id].validation_results = @ \cup {"python_path", "sandbox_path"},
                   !.ret = TRUE]
    [] OTHER ->
         [LogError(b, id, "Venv sandbox creation failed") EXCEPT !.ret = FALSE]

\* ingest that marks the record APPROVED as soon as the sandbox exists.
ingestApproves(s, name, version, out) ==
  LET id == Len(s.pkgs) + 1
      s0 == [s EXCEPT !.pkgs = Append(@, PackageMetadata(name, version, id)),
                      !.status_log = Append(@, <<INGESTING>>),
                      !.active_packages[name] = id,
                      !.dirs = @ \cup {id}]
  IN IF out = "ok"
     THEN [SetStatus(s0, id, APPROVED) EXCEPT !.ret = id]
     ELSE [LogError(SetStatus(s0, id, FAILED), id, "Failed to create sandbox environment")
             EXCEPT !.ret = id]

\* ingest that removes the sandbox of the record it replaces.
ingestDestroysEarlier(s, name, version, out) ==
  LET id == Len(s.pkgs) + 1
      old == s.active_packages[name]
      s0 == [s EXCEPT !.pkgs = Append(@, PackageMetadata(name, version, id)),
                      !.status_log = Append(@, <<INGESTING>>),
                      !.active_packages[name] = id,
                      !.dirs = (@ \ {old}) \cup {id},
                      !.images = @ \ {old}]
  IN IF out = "ok"
     THEN LET s1 == IF container_engine # NoEngine
                    THEN CreateContainerSandbox(s0, id, out)
                    ELSE CreateVenvSandbox(s0, id, out)
          IN [SetStatus(s1, id, TESTING) EXCEPT !.ret = id]
     ELSE [LogError(SetStatus(s0, id, FAILED), id, "Failed to create sandbox environment")
             EXCEPT !.ret = id]

\* ingest(package_name, version) -> PackageMetadata
ingest(s, name, version, out) ==
  LET id == Len(s.pkgs) + 1
      s0 == [s EXCEPT !.pkgs = Append(@, PackageMetadata(name, version, id)),
                      !.status_log = Append(@, <<INGESTING>>),
                      !.active_packages[name] = id]
  IN IF out = "mkdir_error"
     THEN \* except Exception in ingest
          [LogError(SetStatus(s0, id, FAILED), id, "Ingestion error") EXCEPT !.ret = id]
     ELSE LET s1 == [s0 EXCEPT !.dirs = @ \cup {id}]
              s2 == IF container_engine # NoEngine
                    THEN CreateContainerSandbox(s1, id, out)
                    ELSE CreateVenvSandbox(s1, id, out)
          IN IF s2.ret
             THEN [SetStatus(s2, id, TESTING) EXCEPT !.ret = id]
             ELSE [LogError(SetStatus(s2, id, FAILED), id,
                            "Failed to create sandbox environment") EXCEPT !.ret = id]

\* -------------------------------------------------------- test_collaborate
\* Outcome of running the test program in the sandbox: exit status 0, a
\* non-zero exit status, subprocess.TimeoutExpired, or any other exception
\* raised by subprocess.run (binary missing, permission denied).
RunOutcomes == {"exit0", "nonzero", "timeout", "error"}

\* What the environment can answer for a sandbox: an image that was never
\* built, or an interpreter whose directory is gone, cannot run the test
\* program to exit status 0.
SandboxRun(s, id, out) ==
  IF out # "exit0" THEN out
  ELSE IF container_engine # NoEngine
       THEN (IF id \in s.images THEN "exit0" ELSE "nonzero")
       ELSE (IF id \in s.dirs THEN "exit0" ELSE "error")

\* validation_results['stdout'], ['stderr'], ['returncode'] = ...
StoreRun(s, id) ==
  [s EXCEPT !.pkgs[id].validation_results = @ \cup {"stdout", "stderr", "returncode"}]

\* _test_in_container(pkg_meta) -> bool (in s.ret)
TestInContainer(s, id, out) ==
  LET r == SandboxRun(s, id, out)
      b == Started(s, "run")
  IN CASE r = "exit0" ->
            [LogSuccess(StoreRun(b, id), id, "Container validation passed")
               EXCEPT !.ret = TRUE]
       [] r = "nonzero" ->
            [LogError(StoreRun(b, id), id, "Container validation failed")
               EXCEPT !.ret = FALSE]
       [] r = "timeout" ->
            [LogError(b, id, "Container validation timed out") EXCEPT !.ret = FALSE]
       [] OTHER ->
            [LogError(b, id, "Container validation error") EXCEPT !.ret = FALSE]

\* TestInVenv reading the sandbox paths with a default instead of failing on
\* the missing key.
TestInVenvDefaultPaths(s, id, out) ==
  LET r == SandboxRun(s, id, out)
      b == Started(s, "run")
  IN IF r = "exit0"
     THEN [LogSuccess(StoreRun(b, id), id, "Venv validation passed") EXCEPT !.ret = TRUE]
     ELSE [LogError(b, id, "Venv validation failed") EXCEPT !.ret = FALSE]

\* _test_in_venv(pkg_meta) -> bool (in s.ret)
TestInVenv(s, id, out) ==
  IF ~({"python_path", "sandbox_path"} \subseteq s.pkgs[id].validation_results)
  THEN \* KeyError, caught by except Exception
       [LogError(s, id, "Venv validation error") EXCEPT !.ret = FALSE]
  ELSE LET r == SandboxRun(s, id, out)
           b == Started(s, "run")
       IN CASE r = "exit0" ->
                 [LogSuccess(StoreRun(b, id), id, "Venv validation passed")
                    EXCEPT !.ret = TRUE]
            [] r = "nonzero" ->
                 [LogError(StoreRun(b, id), id, "Venv validation failed")
                    EXCEPT !.ret = FALSE]
            [] r = "timeout" ->
                 [LogError(b, id, "Venv validation timed out") EXCEPT !.ret = FALSE]
            [] OTHER ->
                 [LogError(b, id, "Venv validation error") EXCEPT !.ret = FALSE]

\* TestVerdict whose else branch returns False without setting FAILED.
TestVerdictKeepsStatus(s, id) ==
  IF s.ret
  THEN [LogSuccess(SetStatus(s, id, APPROVED), id, "Package validation successful")
          EXCEPT !.ret = TRUE]
  ELSE [s EXCEPT !.ret = FALSE]

\* The if success / else of test_collaborate: the status and return value
\* that follow the sandbox test's verdict (s.ret).
TestVerdict(s, id) ==
  IF s.ret
  THEN [LogSuccess(SetStatus(s, id, APPROVED), id, "Package validation successful")
          EXCEPT !.ret = TRUE]
  ELSE [SetStatus(s, id, FAILED) EXCEPT !.ret = FALSE]

\* test_collaborate without the membership test: the lookup raises KeyError.
test_collaborate_unchecked(s, name, out) ==
  IF s.active_packages[name] = NoId
  THEN [s EXCEPT !.ret = FALSE, !.raised = TRUE]
  ELSE LET id == s.active_packages[name]
           s0 == [SetStatus(s, id, COLLABORATING) EXCEPT !.pkgs[id].test_time = TRUE]
           s1 == IF container_engine # NoEngine
                 THEN TestInContainer(s0, id, out)
                 ELSE TestInVenv(s0, id, out)
       IN TestVerdict(s1, id)

\* test_collaborate(package_name) -> bool
test_collaborate(s, name, out) ==
  IF s.active_packages[name] = NoId
  THEN [s EXCEPT !.ret = FALSE]
  ELSE LET id == s.active_packages[name]
           s0 == [SetStatus(s, id, COLLABORATING) EXCEPT !.pkgs[id].test_time = TRUE]
           s1 == IF container_engine # NoEngine
                 THEN TestInContainer(s0, id, out)
                 ELSE TestInVenv(s0, id, out)
       IN IF s1.raised
          THEN \* except Exception in test_collaborate
               [LogError(SetStatus(s1, id, FAILED), id, "Testing error")
                  EXCEPT !.ret = FALSE, !.raised = FALSE]
          ELSE TestVerdict(s1, id)

\* ------------------------------------------------------------ kill_destroy
\* history.append({...}): the flattened snapshot of the record.
HistoryEntry(p) ==
  [name |-> p.name, version |-> p.version, status |-> p.status,
   sandbox_id |-> p.sandbox_id, error_log |-> p.error_log,
   success_log |-> p.success_log]

\* The truncation keeping the first 1000 entries.
FirstEntries(h) ==
  IF Len(h) > HistoryCap THEN SubSeq(h, 1, HistoryCap) ELSE h

\* if len(history) > 1000: history = history[-1000:]
LastEntries(h) ==
  IF Len(h) > HistoryCap THEN SubSeq(h, Len(h) - HistoryCap + 1, Len(h)) ELSE h

\* _save_package_history(pkg_meta); io_ok = FALSE is the history file failing
\* to load or to be written, which the method logs and swallows.
SavePackageHistory(s, id, io_ok) ==
  IF io_ok
  THEN [s EXCEPT !.history = LastEntries(Append(@, HistoryEntry(s.pkgs[id]))),
                 !.archived = Append(@, HistoryEntry(s.pkgs[id]))]
  ELSE s

\* The try block's first statement: <engine> rmi -f snakepit-test-<id>, with
\* every failure swallowed (rmi_ok = FALSE: the image stays).
RemoveImage(s, id, rmi_ok) ==
  IF container_engine # NoEngine
  THEN LET b == Started(s, "rmi")
       IN IF rmi_ok THEN [b EXCEPT !.images = @ \ {id}] ELSE b
  ELSE s

\* Archive that does not write the history entry.
ArchiveWithoutHistory(s, name, id, io_ok) ==
  LET s0 == LogSuccess(SetStatus(s, id, DESTROYED), id, "Package sandbox destroyed")
  IN [s0 EXCEPT !.active_packages[name] = NoId, !.ret = TRUE]

\* The statements of kill_destroy after the sandbox directory is gone:
\* status, log, history, removal from the active set; returns True.
Archive(s, name, id, io_ok) ==
  LET s0 == LogSuccess(SetStatus(s, id, DESTROYED), id, "Package sandbox destroyed")
      s1 == SavePackageHistory(s0, id, io_ok)
  IN [s1 EXCEPT !.active_packages[name] = NoId, !.ret = TRUE]

\* kill_destroy setting DESTROYED before it removes the sandbox directory.
kill_destroy_status_first(s, name, rmi_ok, rm_ok, io_ok) ==
  IF s.active_packages[name] = NoId
  THEN [s EXCEPT !.ret = FALSE]
  ELSE LET id == s.active_packages[name]
           s0 == SetStatus(RemoveImage(s, id, rmi_ok), id, DESTROYED)
       IN IF id \in s0.dirs /\ ~rm_ok
          THEN [s0 EXCEPT !.ret = FALSE]
          ELSE LET s1 == LogSuccess([s0 EXCEPT !.dirs = @ \ {id}], id,
                                    "Package sandbox destroyed")
                   s2 == SavePackageHistory(s1, id, io_ok)
               IN [s2 EXCEPT !.active_packages[name] = NoId, !.ret = TRUE]

\* kill_destroy in which a failed image removal ends the call like any other
\* exception of the try block.
kill_destroy_rmi_fatal(s, name, rmi_ok, rm_ok, io_ok) ==
  IF s.active_packages[name] = NoId
  THEN [s EXCEPT !.ret = FALSE]
  ELSE LET id == s.active_packages[name]
           s0 == RemoveImage(s, id, rmi_ok)
       IN IF (container_engine # NoEngine /\ ~rmi_ok) \/ (id \in s0.dirs /\ ~rm_ok)
          THEN [s0 EXCEPT !.ret = FALSE]
          ELSE Archive([s0 EXCEPT !.dirs = @ \ {id}], name, id, io_ok)

\* kill_destroy(package_name) -> bool; rm_ok = FALSE is shutil.rmtree raising.
kill_destroy(s, name, rmi_ok, rm_ok, io_ok) ==
  IF s.active_packages[name] = NoId
  THEN [s EXCEPT !.ret = FALSE]
  ELSE LET id == s.active_packages[name]
           s0 == RemoveImage(s, id, rmi_ok)
       IN IF id \in s0.dirs /\ ~rm_ok
          THEN \* except Exception: logged, return False
               [s0 EXCEPT !.ret = FALSE]
          ELSE Archive([s0 EXCEPT !.dirs = @ \ {id}], name, id, io_ok)

\* ------------------------------------------------------- conscript_install
\* Which of './target/release/snakepit', './target/debug/snakepit', 'snakepit'
\* first answers --version with status 0 ("none": no one does); "error" is a
\* probe raising something other than FileNotFoundError / TimeoutExpired.
ProbeOutcomes == {"release", "debug", "path", "none", "error"}

\* Outcome of the installer command: exit status 0, non-zero, or an exception
\* (the 300 s timeout, a spawn failure).
InstallOutcomes == {"exit0", "nonzero", "error"}

\* _update_dependency_graph(pkg_meta); io_ok = FALSE is snakepit.toml failing
\* to load or to be written, which the method logs and swallows.
UpdateDependencyGraph(s, id, io_ok) ==
  IF io_ok
  THEN [s EXCEPT !.dependencies =
                   @ \cup {DependencySpec(s.pkgs[id].name, s.pkgs[id].version)}]
  ELSE s

\* conscript_install never taking the dry-run branch.
DryRunIgnored == FALSE

\* if self.config['dry_run']:
DryRun == dry_run

\* InstallFailed without the error_log entry.
InstallFailedSilently(s, id) ==
  [SetStatus(s, id, FAILED) EXCEPT !.ret = FALSE]

\* success = False after the installer ran: the error is logged, then the
\* else branch sets FAILED and returns False.
InstallFailed(s, id) ==
  [SetStatus(LogError(s, id, "Installation failed"), id, FAILED) EXCEPT !.ret = FALSE]

\* InstallRaised that also removes the sandbox directory of the record.
InstallRaisedCleansUp(s, id) ==
  [LogError(SetStatus(s, id, FAILED), id, "Installation error")
     EXCEPT !.ret = FALSE, !.dirs = @ \ {id}]

\* except Exception in conscript_install: FAILED, the error logged, False.
InstallRaised(s, id) ==
  [LogError(SetStatus(s, id, FAILED), id, "Installation error") EXCEPT !.ret = FALSE]

\* Installable letting a FAILED record be installed again without a new test.
InstallableAlsoFailed(p) == p.status \in {APPROVED, FAILED}

\* Installable without the status check (any active record is installed).
InstallableAnyStatus(p) == TRUE

\* The check at the top of conscript_install: may the record be installed?
Installable(p) == p.status = APPROVED

\* RunInstaller giving the installer the bare name, without the version pin.
RunInstallerUnpinned(s, id, bin) ==
  [Started(s, bin) EXCEPT
     !.installs = @ \cup {[id |-> id,
                           spec |-> <<s.pkgs[id].name>>,
                           status |-> s.pkgs[id].status]}]

\* subprocess.run([<installer>, 'install', package_spec], ...)
RunInstaller(s, id, bin) ==
  [Started(s, bin) EXCEPT
     !.installs = @ \cup {[id |-> id,
                           spec |-> PackageSpec(s.pkgs[id].name, s.pkgs[id].version),
                           status |-> s.pkgs[id].status]}]

\* The if success branch: CONSCRIPTED, dependency graph, implicit kill_destroy
\* (its result is not looked at), return True.
InstallSucceeded(s, name, id, toml_ok, rmi_ok, rm_ok, io_ok) ==
  LET s0 == LogSuccess(SetStatus(s, id, CONSCRIPTED), id, "Package installed successfully")
      s1 == UpdateDependencyGraph(s0, id, toml_ok)
      s2 == kill_destroy(s1, name, rmi_ok, rm_ok, io_ok)
  IN [s2 EXCEPT !.ret = TRUE]

\* conscript_install(package_name) -> bool
conscript_install(s, name, probe, inst, toml_ok, rmi_ok, rm_ok, io_ok) ==
  IF s.active_packages[name] = NoId
  THEN [s EXCEPT !.ret = FALSE]
  ELSE LET id == s.active_packages[name] IN
       IF ~Installable(s.pkgs[id])
       THEN [s EXCEPT !.ret = FALSE]
       ELSE LET s0 == [s EXCEPT !.pkgs[id].install_time = TRUE] IN
            IF DryRun
            THEN InstallSucceeded(s0, name, id, toml_ok, rmi_ok, rm_ok, io_ok)
            ELSE LET s1 == Started(s0, "probe") IN
                 IF probe = "error"
                 THEN InstallRaised(s1, id)
                 ELSE LET bin == IF probe = "none" THEN "pip_install"
                                 ELSE "snakepit_install"
                          s2 == RunInstaller(s1, id, bin)
                      IN CASE inst = "exit0" ->
                                InstallSucceeded(s2, name, id, toml_ok, rmi_ok, rm_ok, io_ok)
                           [] inst = "nonzero" -> InstallFailed(s2, id)
                           [] OTHER -> InstallRaised(s2, id)

\* -------------------------------------------------------------- cleanup_all
\* self.kill_destroy(package_name) has returned inside the loop: note the
\* call with its argument and its return value.
CalledFor(s, op, name, ret) ==
  [s EXCEPT !.calls = Append(@, [op |-> op, name |-> name, ret |-> ret])]

\* for package_name in package_names: self.kill_destroy(package_name); the
\* outcomes of each clean-up are given per name.
\* The loop ending at the first kill_destroy that returns False.
RECURSIVE DestroyEachUntilFailure(_, _, _, _, _)
DestroyEachUntilFailure(s, names, rmi_ok, rm_ok, io_ok) ==
  IF names = <<>> THEN s
  ELSE LET n == Head(names)
           k == kill_destroy(s, n, rmi_ok[n], rm_ok[n], io_ok[n])
           c == CalledFor(k, "kill_destroy", n, k.ret)
       IN IF k.ret
          THEN DestroyEachUntilFailure(c, Tail(names), rmi_ok, rm_ok, io_ok)
          ELSE c

RECURSIVE DestroyEach(_, _, _, _, _)
DestroyEach(s, names, rmi_ok, rm_ok, io_ok) ==
  IF names = <<>> THEN s
  ELSE LET n == Head(names)
           k == kill_destroy(s, n, rmi_ok[n], rm_ok[n], io_ok[n])
       IN DestroyEach(CalledFor(k, "kill_destroy", n, k.ret),
                      Tail(names), rmi_ok, rm_ok, io_ok)

\* cleanup_all(); package_names is list(self.active_packages.keys()).
cleanup_all(s, package_names, rmi_ok, rm_ok, io_ok) ==
  [DestroyEach(s, package_names, rmi_ok, rm_ok, io_ok) EXCEPT !.ret = FALSE]

\* ---------------------------------------------------------- handle_package
\* A primitive called by a composite method has returned: note it with its
\* return value (for ingest, the status of the record it returned).
Called(s, op, ret) == [s EXCEPT !.calls = Append(@, [op |-> op, ret |-> ret])]

\* handle_package that leaves a record alone when its test failed.
handle_package_keeps_rejected(s, name, version, out, run, probe, inst, toml_ok, rmi_ok, rm_ok, io_ok) ==
  LET i == ingest(s, name, version, out)
      s1 == Called(i, "ingest", i.pkgs[i.ret].status)
  IN IF s1.pkgs[s1.ret].status = FAILED
     THEN LET k == kill_destroy(s1, name, rmi_ok, rm_ok, io_ok)
          IN [Called(k, "kill_destroy", k.ret) EXCEPT !.ret = FALSE]
     ELSE LET t == test_collaborate(s1, name, run)
              s2 == Called(t, "test_collaborate", t.ret)
          IN IF ~s2.ret
             THEN [s2 EXCEPT !.ret = FALSE]
             ELSE LET c == conscript_install(s2, name, probe, inst,
                                             toml_ok, rmi_ok, rm_ok, io_ok)
                  IN Called(c, "conscript_install", c.ret)

\* handle_package that goes on to the test after a failed ingest.
handle_package_no_ingest_check(s, name, version, out, run, probe, inst, toml_ok, rmi_ok, rm_ok, io_ok) ==
  LET i == ingest(s, name, version, out)
      s1 == Called(i, "ingest", i.pkgs[i.ret].status)
      t == test_collaborate(s1, name, run)
      s2 == Called(t, "test_collaborate", t.ret)
  IN IF ~s2.ret
     THEN LET k == kill_destroy(s2, name, rmi_ok, rm_ok, io_ok)
          IN [Called(k, "kill_destroy", k.ret) EXCEPT !.ret = FALSE]
     ELSE LET c == conscript_install(s2, name, probe, inst,
                                     toml_ok, rmi_ok, rm_ok, io_ok)
          IN Called(c, "conscript_install", c.ret)

\* handle_package(package_name, version) -> bool
handle_package(s, name, version, out, run, probe, inst, toml_ok, rmi_ok, rm_ok, io_ok) ==
  LET i == ingest(s, name, version, out)
      s1 == Called(i, "ingest", i.pkgs[i.ret].status)
  IN IF s1.pkgs[s1.ret].status = FAILED
     THEN LET k == kill_destroy(s1, name, rmi_ok, rm_ok, io_ok)
          IN [Called(k, "kill_destroy", k.ret) EXCEPT !.ret = FALSE]
     ELSE LET t == test_collaborate(s1, name, run)
              s2 == Called(t, "test_collaborate", t.ret)
          IN IF ~s2.ret
             THEN LET k == kill_destroy(s2, name, rmi_ok, rm_ok, io_ok)
                  IN [Called(k, "kill_destroy", k.ret) EXCEPT !.ret = FALSE]
             ELSE LET c == conscript_install(s2, name, probe, inst,
                                             toml_ok, rmi_ok, rm_ok, io_ok)
                  IN Called(c, "conscript_install", c.ret)

\* ------------------------------------------------------ validate-only flows
\* SmartSnakepitIntegration.validate_only(package_name, version) -> dict
\* (src/smart_snakepit.py); ret is the dict's 'success'.  The method sets
\* config['dry_run'] to True before the try and back to its earlier value in
\* the finally, on every path.
validate_only(s, name, version, out, run, rmi_ok, rm_ok, io_ok) ==
  LET i == ingest(s, name, version, out)
      s1 == Called(i, "ingest", i.pkgs[i.ret].status)
  IN IF s1.pkgs[s1.ret].status = FAILED
     THEN [s1 EXCEPT !.ret = FALSE]
     ELSE LET t == test_collaborate(s1, name, run)
              s2 == Called(t, "test_collaborate", t.ret)
              k == kill_destroy(s2, name, rmi_ok, rm_ok, io_ok)
          IN [Called(k, "kill_destroy", k.ret) EXCEPT !.ret = t.ret]

\* SnakepitCLI.cmd_validate(args) -> int (src/snakepit_cli.py); ret is
\* success (exit status 0).
cmd_validate(s, name, version, out, run, rmi_ok, rm_ok, io_ok) ==
  LET i == ingest(s, name, version, out)
      s1 == Called(i, "ingest", i.pkgs[i.ret].status)
  IN IF s1.pkgs[s1.ret].status = FAILED
     THEN LET k == kill_destroy(s1, name, rmi_ok, rm_ok, io_ok)
          IN [Called(k, "kill_destroy", k.ret) EXCEPT !.ret = FALSE]
     ELSE LET t == test_collaborate(s1, name, run)
              s2 == Called(t, "test_collaborate", t.ret)
              k == kill_destroy(s2, name, rmi_ok, rm_ok, io_ok)
          IN [Called(k, "kill_destroy", k.ret) EXCEPT !.ret = t.ret]

\* ------------------------------------------------------ validation framework
\* src/validation_framework.py: ValidationFramework.validate_package writes the
\* generated test driver to a file and runs it with the sandbox's interpreter.

\* ValidationLevel values.
ValidationLevel == {"basic", "standard", "comprehensive", "security", "performance"}

\* A score is the float passed_tests / test_count, kept as the fraction
\* <<numerator, denominator>>; 0.0 is <<0, 1>>.
Zero == <<0, 1>>

\* if test_count > 0: results['overall_score'] = passed_tests / test_count
\* (the initial value of results['overall_score'] is 0.0)
OverallScore(passed_tests, test_count) ==
  IF test_count > 0 THEN <<passed_tests, test_count>> ELSE Zero

\* The driver's test with a strict comparison.
AtLeastThresholdStrict(score) == 10 * score[1] > 8 * score[2]

\* results['overall_score'] >= 0.8
AtLeastThreshold(score) == 10 * score[1] >= 8 * score[2]

\* sys.exit(0) if the score reaches the threshold, sys.exit(1) otherwise.
ExitStatus(score) == IF AtLeastThreshold(score) THEN 0 ELSE 1

\* f"{overall_score:.2f}" read back by _extract_score_from_output: the score
\* rounded to hundredths (as a number of hundredths).
Hundredths(score) == (200 * score[1] + score[2]) \div (2 * score[2])

\* generate_test_script puts test_basic_import in the driver only at these
\* levels; at the others the driver's call of it is a NameError.
HasBasicTemplate(level) == level \in {"basic", "standard"}

RunsExtendedTests(level) == level \in {"standard", "comprehensive"}

RunsPerformanceTest(level) == level \in {"performance", "comprehensive"}

\* What the package under test does to the driver's tests: the basic import
\* passes or fails; the extended tests run or raise; the import is timed
\* under 5 s, over it, or raises.
BasicOutcomes == {"pass", "fail"}
ExtendedOutcomes == {"ok", "raise"}
PerformanceOutcomes == {"fast", "slow", "raise"}

\* run_validation() of the generated driver: counts the tests that ran and
\* the tests that passed (a test whose try block raised counts as neither).
RunValidation(level, basic, ext, perf) ==
  LET b == IF HasBasicTemplate(level)
           THEN [t |-> 1, p |-> IF basic = "pass" THEN 1 ELSE 0]
           ELSE [t |-> 0, p |-> 0]
      e == IF RunsExtendedTests(level) /\ ext = "ok"
           THEN [t |-> 2, p |-> 2]
           ELSE [t |-> 0, p |-> 0]
      f == IF RunsPerformanceTest(level) /\ perf # "raise"
           THEN [t |-> 1, p |-> IF perf = "fast" THEN 1 ELSE 0]
           ELSE [t |-> 0, p |-> 0]
      test_count == b.t + e.t + f.t
      passed_tests == b.p + e.p + f.p
  IN [passed_tests |-> passed_tests, total_tests |-> test_count,
      overall_score |-> OverallScore(passed_tests, test_count)]

\* The driver's __main__ block: prints the score and exits.
DriverMain(results) ==
  [printed_score |-> Hundredths(results.overall_score),
   returncode |-> ExitStatus(results.overall_score)]

\* ----------------------------------------------------------- security scan
\* A text is given chunk by chunk (its characters are the chunks' characters
\* in order); the chunks are the words the patterns are made of, white space,
\* and other runs of characters.  re.IGNORECASE: a chunk matches in any case.
Lower(c) ==
  CASE c = "EVAL" -> "eval"
    [] c = "Import" -> "import"
    [] c = "Flask" -> "flask"
    [] OTHER -> c

\* \s matches these chunks.
IsSpace(c) == c \in {" ", "\n"}

\* The two pattern elements that are not literal text.
WS0 == "\\s*"
WS1 == "\\s+"

\* The pattern p matches the text c from chunk i on.
RECURSIVE MatchAt(_, _, _)
MatchAt(p, c, i) ==
  IF p = <<>> THEN TRUE
  ELSE LET h == Head(p) IN
       CASE h = WS0 ->
              \/ MatchAt(Tail(p), c, i)
              \/ i <= Len(c) /\ IsSpace(c[i]) /\ MatchAt(p, c, i + 1)
         [] h = WS1 ->
              i <= Len(c) /\ IsSpace(c[i]) /\ MatchAt(<<WS0>> \o Tail(p), c, i + 1)
         [] OTHER ->
              i <= Len(c) /\ Lower(c[i]) = h /\ MatchAt(Tail(p), c, i + 1)

\* re.match: the pattern is looked for at the start of the text only.
SearchAtStart(pattern, content) == MatchAt(pattern, content, 1)

\* re.search(pattern, content, re.IGNORECASE) is not None
Search(pattern, content) ==
  \E i \in 1..(Len(content) + 1) : MatchAt(pattern, content, i)

EvalPattern == <<"eval", WS0, "(">>

\* self.security_patterns, in the order the dict is iterated: each category
\* with its list of patterns.
SecurityPatterns ==
  << [category |-> "dangerous_imports",
      patterns |-> << <<"import", WS1, "os", ".", "system">>,
                      <<"import", WS1, "subprocess", ".">>,
                      <<"from", WS1, "subprocess", WS1, "import">>,
                      <<"import", WS1, "eval">>,
                      <<"import", WS1, "exec">>,
                      <<"__import__", WS0, "(">> >>],
     [category |-> "network_access",
      patterns |-> << <<"import", WS1, "urllib">>,
                      <<"import", WS1, "requests">>,
                      <<"import", WS1, "socket">>,
                      <<"import", WS1, "http", ".">>,
                      <<"from", WS1, "urllib">> >>],
     [category |-> "file_system",
      patterns |-> << <<"open", WS0, "(">>,
                      <<"file", WS0, "(">>,
                      <<"import", WS1, "shutil">>,
                      <<"os", ".", "remove">>,
                      <<"os", ".", "unlink">>,
                      <<"pathlib", ".">> >>],
     [category |-> "eval_patterns",
      patterns |-> << EvalPattern,
                      <<"exec", WS0, "(">>,
                      <<"compile", WS0, "(">>,
                      <<"__import__", WS0, "(">> >>] >>

\* f"{category}: {pattern} found in {file_path.name}"
Finding(category, pattern, name) ==
  [category |-> category, pattern |-> pattern, file |-> name]

\* for pattern in patterns: if re.search(...): security_issues.append(...)
RECURSIVE ScanPatterns(_, _, _)
ScanPatterns(category, patterns, f) ==
  IF patterns = <<>> THEN <<>>
  ELSE (IF Search(Head(patterns), f.content)
        THEN <<Finding(category, Head(patterns), f.name)>>
        ELSE <<>>) \o ScanPatterns(category, Tail(patterns), f)

\* for category, patterns in self.security_patterns.items(): ...
RECURSIVE ScanCategories(_, _)
ScanCategories(cats, f) ==
  IF cats = <<>> THEN <<>>
  ELSE ScanPatterns(Head(cats).category, Head(cats).patterns, f)
         \o ScanCategories(Tail(cats), f)

\* The body of the loop over the files: a file that cannot be opened or read
\* is logged and skipped.
ScanFile(f) == IF f.readable THEN ScanCategories(SecurityPatterns, f) ELSE <<>>

\* _security_scan(package_path) -> List[str]; files is what
\* package_dir.rglob("*.py") lists, in its order.
RECURSIVE security_scan(_)
security_scan(files) ==
  IF files = <<>> THEN <<>>
  ELSE ScanFile(Head(files)) \o security_scan(Tail(files))

\* Pieces of source text: a match of each pattern, with and without white
\* space, in capitals, inside a longer word, and near misses.
Phrases ==
  { <<>>, <<"x">>, <<"\n">>, <<"eval">>, <<"(">>,
    <<"eval", "(">>, <<"EVAL", " ", "(">>, <<"medi", "eval", "(">>,
    <<"exec", "(">>, <<"compile", "\n", "(">>, <<"__import__", "(">>,
    <<"import", " ", "os", ".", "system">>, <<"import", "os", ".", "system">>,
    <<"Import", " ", "subprocess", ".">>, <<"import", " ", "subprocess">>,
    <<"from", " ", "subprocess", " ", "import">>,
    <<"import", " ", "eval">>, <<"import", " ", "exec">>,
    <<"import", " ", "urllib">>, <<"import", " ", "requests">>,
    <<"import", " ", " ", "socket">>, <<"import", " ", "http", ".">>,
    <<"from", " ", "urllib">>,
    <<"open", "(">>, <<"pro", "file", "(">>, <<"import", " ", "shutil">>,
    <<"os", ".", "remove">>, <<"os", ".", "unlink">>, <<"pathlib", ".">> }

\* The texts scanned: two pieces one after the other.
Contents == {p \o q : p \in Phrases, q \in Phrases}

FileNames == {"a.py", "b.py"}

SourceFile(name, content, readable) ==
  [name |-> name, content |-> content, readable |-> readable]

\* A few texts for the scans of more than one file.
FewContents ==
  { <<"x">>, <<"eval", "(">>, <<"eval", "(", "eval", "(">>,
    <<"__import__", "(", "open", "(">> }

FewFiles ==
  {SourceFile(n, c, r) : n \in FileNames, c \in FewContents, r \in BOOLEAN}

\* What rglob("*.py") can list: nothing, one file, or two files (in two
\* directories, so that they can have the same name).
FileLists ==
  {<<>>} \cup {<<SourceFile("a.py", c, TRUE)>> : c \in Contents}
         \cup {<<f>> : f \in FewFiles}
         \cup {<<f, g>> : f \in FewFiles, g \in FewFiles}

\* The files of the package validate_package is called for.
PackageFiles ==
  {<<>>, <<SourceFile("a.py", <<"x">>, TRUE)>>,
   <<SourceFile("a.py", <<"eval", "(">>, TRUE), SourceFile("b.py", <<"open", "(">>, TRUE)>>}

\* ------------------------------------------------------- the driver's stdout
\* The levels at which the driver imports the package under test (in
\* test_basic_import, in the extended tests or in the performance test), so
\* that what the package prints while being imported is on the driver's stdout.
ImportsPackage(level) ==
  HasBasicTemplate(level) \/ RunsExtendedTests(level) \/ RunsPerformanceTest(level)

\* f"{results['overall_score']:.2f}": the text of a score given in hundredths.
Format2f(h) ==
  CASE h = 0 -> "0.00"
    [] h = 25 -> "0.25"
    [] h = 33 -> "0.33"
    [] h = 50 -> "0.50"
    [] h = 67 -> "0.67"
    [] h = 75 -> "0.75"
    [] h = 100 -> "1.00"

\* The runs of digits and dots met in the outputs ([\d.]+ matches a whole
\* run), with float(run) in hundredths; -1 stands for float raising ValueError.
FloatOf ==
  [run \in {"0.00", "0.25", "0.33", "0.50", "0.67", "0.75", "1.00",
            "7.5", "100", "0.5", "1.2.3", "."} |->
     CASE run = "0.00" -> 0
       [] run = "0.25" -> 25
       [] run = "0.33" -> 33
       [] run = "0.50" -> 50
       [] run = "0.67" -> 67
       [] run = "0.75" -> 75
       [] run = "1.00" -> 100
       [] run = "7.5" -> 750
       [] run = "100" -> 10000
       [] run = "0.5" -> 50
       [] OTHER -> -1]

\* The first chunk at or after i that is not white space (Len(c) + 1: none).
RECURSIVE SkipSpaces(_, _)
SkipSpaces(c, i) ==
  IF i <= Len(c) /\ IsSpace(c[i]) THEN SkipSpaces(c, i + 1) ELSE i

\* r'Score:\s+([\d.]+)' matches the text c from chunk i on.
ScoreMatchAt(c, i) ==
  /\ c[i] = "Score:"
  /\ i + 1 <= Len(c)
  /\ IsSpace(c[i + 1])
  /\ SkipSpaces(c, i + 1) <= Len(c)
  /\ c[SkipSpaces(c, i + 1)] \in DOMAIN FloatOf

\* _extract_score_from_output(output) -> float (in hundredths): float() of
\* the group of the first match of re.search; 0.0 when nothing matches or
\* float() raises.
extract_score_from_output(output) ==
  LET at == {i \in 1..Len(output) : ScoreMatchAt(output, i)} IN
  IF at = {} THEN 0
  ELSE LET i == CHOOSE k \in at : \A m \in at : k <= m
           v == FloatOf[output[SkipSpaces(output, i + 1)]]
       IN IF v < 0 THEN 0 ELSE v

\* The driver's stdout: what the package printed while it was imported, then
\* the summary the __main__ block prints.
Stdout(level, printed, d) ==
  (IF ImportsPackage(level) THEN printed ELSE <<>>)
    \o <<"Validation Results:", "\n", " ", "Score:", " ",
          Format2f(d.printed_score), " ", "tests passed", "\n">>

\* What a package prints while it is imported: nothing, a line, and lines
\* that look like the summary line.
PrintedTexts ==
  { <<>>, <<"loading", "\n">>,
    <<"Score:", " ", "7.5", "\n">>, <<"High", "Score:", " ", " ", "100", "\n">>,
    <<"Score:", " ", "0.5", "\n">>, <<"Score:", "7.5", "\n">>,
    <<"Score:", " ", "1.2.3", "\n">>, <<"Score:", " ", ".", "\n">>,
    <<"Score:", " ", "-", "7.5", "\n">> }

\* --------------------------------------------------------- validate_package
\* security_issues: None, or the list the scan returned.
NoIssues == [present |-> FALSE, issues |-> <<>>]

Issues(findings) == [present |-> TRUE, issues |-> findings]

\* The security scan run at every level.
RunsSecurityScanAlways(level) == TRUE

\* if validation_level in [ValidationLevel.SECURITY, ValidationLevel.COMPREHENSIVE]
RunsSecurityScan(level) == level \in {"security", "comprehensive"}

\* Outcome of subprocess.run of the driver: it ran to its exit, it outlived
\* the timeout (TimeoutExpired), or it could not be started.
DriverOutcomes == {"completed", "timeout", "error"}

\* validate_package catching the timeout with the other exceptions.
validate_package_one_handler(level, out, basic, ext, perf, files, printed) ==
  IF out = "completed"
  THEN LET d == DriverMain(RunValidation(level, basic, ext, perf))
       IN [passed |-> d.returncode = 0,
             score |-> extract_score_from_output(Stdout(level, printed, d)),
           errors |-> <<>>, raised |-> FALSE,
           security_issues |-> IF RunsSecurityScan(level)
                               THEN Issues(security_scan(files)) ELSE NoIssues]
  ELSE [passed |-> FALSE, score |-> 0, errors |-> <<"Validation error">>,
        raised |-> FALSE, security_issues |-> NoIssues]

\* validate_package(package_name, package_path, validation_level, timeout)
\* -> ValidationResult (score in hundredths); files are the *.py files under
\* package_path, printed is what the package prints while it is imported.
validate_package(level, out, basic, ext, perf, files, printed) ==
  CASE out = "completed" ->
         LET d == DriverMain(RunValidation(level, basic, ext, perf))
         IN [passed |-> d.returncode = 0,
             score |-> extract_score_from_output(Stdout(level, printed, d)),
             errors |-> <<>>, raised |-> FALSE,
             security_issues |-> IF RunsSecurityScan(level)
                                 THEN Issues(security_scan(files)) ELSE NoIssues]
    [] out = "timeout" ->
         [passed |-> FALSE, score |-> 0, errors |-> <<"Validation timed out">>,
          raised |-> FALSE, security_issues |-> NoIssues]
    [] OTHER ->
         [passed |-> FALSE, score |-> 0, errors |-> <<"Validation error">>,
          raised |-> FALSE, security_issues |-> NoIssues]

\* ----------------------------------------------------- generate_test_script
\* A program text is a list of lines and a line is <<text, argument>> (the
\* argument is what an f-string puts into the line).
Line(text, arg) == <<text, arg>>

BasicTemplate == <<Line("def test_basic_import(package_name):", "")>>

WebTemplate == <<Line("def test_web_framework(package_name):", "")>>

DataTemplate == <<Line("def test_data_package(package_name):", "")>>

SecurityTemplate == <<Line("def test_security_aspects(package_name, source_files):", "")>>

\* self.test_templates after _load_test_templates()
LoadTestTemplates ==
  [k \in {"basic", "web", "data", "security"} |->
     CASE k = "basic" -> BasicTemplate
       [] k = "web" -> WebTemplate
       [] k = "data" -> DataTemplate
       [] k = "security" -> SecurityTemplate]

\* The package names tried, and their text chunk by chunk.
PackageNames == {"Flask-Login", "numpy", "torch", "requests"}

NameChunks(name) ==
  IF name = "Flask-Login" THEN <<"Flask", "-", "Login">> ELSE <<name>>

WebPatterns == {"flask", "django", "fastapi", "tornado", "pyramid", "bottle"}
DataPatterns == {"pandas", "numpy", "scipy", "sklearn", "matplotlib", "seaborn"}
MlPatterns == {"tensorflow", "torch", "keras", "xgboost", "lightgbm"}

\* any(pattern in name_lower for pattern in patterns)
NameHas(name, patterns) ==
  \E i \in 1..Len(NameChunks(name)) : Lower(NameChunks(name)[i]) \in patterns

\* _detect_package_type(package_name) -> str
DetectPackageType(name) ==
  CASE NameHas(name, WebPatterns) -> "web"
    [] ~NameHas(name, WebPatterns) /\ NameHas(name, DataPatterns) -> "data"
    [] ~NameHas(name, WebPatterns) /\ ~NameHas(name, DataPatterns)
         /\ NameHas(name, MlPatterns) -> "ml"
    [] OTHER -> "general"

\* The lines before the templates.
ScriptHeader(package_name, level) ==
  <<Line("#!/usr/bin/env python3", ""),
    Line("PACKAGE_NAME =", package_name),
    Line("VALIDATION_LEVEL =", level)>>

\* The main execution logic: run_validation() and the __main__ block.
MainScript ==
  <<Line("def run_validation():", ""), Line("if __name__ == '__main__':", "")>>

\* if validation_level in [ValidationLevel.STANDARD, ValidationLevel.COMPREHENSIVE]
HasCategoryTemplate(level) == level \in {"standard", "comprehensive"}

\* if validation_level in [ValidationLevel.SECURITY, ValidationLevel.COMPREHENSIVE]
HasSecurityTemplate(level) == level \in {"security", "comprehensive"}

\* "\n".join(parts): the lines of the parts, one part after the other.
RECURSIVE Join(_)
Join(parts) == IF parts = <<>> THEN <<>> ELSE Head(parts) \o Join(Tail(parts))

\* generate_test_script reading the templates loaded at construction.
generate_test_script_loaded(templates, package_name, level, custom_tests) ==
  LET package_type == DetectPackageType(package_name)
      loaded == LoadTestTemplates
      basic == IF HasBasicTemplate(level) THEN <<loaded["basic"]>> ELSE <<>>
      category == IF HasCategoryTemplate(level) /\ package_type \in {"web", "data"}
                  THEN <<loaded[package_type]>> ELSE <<>>
      security == IF HasSecurityTemplate(level) THEN <<loaded["security"]>> ELSE <<>>
  IN Join(<<ScriptHeader(package_name, level)>> \o basic \o category \o security
            \o custom_tests \o <<MainScript>>)

\* generate_test_script(package_name, validation_level, custom_tests) -> str,
\* with self.test_templates as templates.
generate_test_script(templates, package_name, level, custom_tests) ==
  LET package_type == DetectPackageType(package_name)
      basic == IF HasBasicTemplate(level) THEN <<templates["basic"]>> ELSE <<>>
      category == IF HasCategoryTemplate(level) /\ package_type \in {"web", "data"}
                  THEN <<templates[package_type]>> ELSE <<>>
      security == IF HasSecurityTemplate(level) THEN <<templates["security"]>> ELSE <<>>
  IN Join(<<ScriptHeader(package_name, level)>> \o basic \o category \o security
            \o custom_tests \o <<MainScript>>)

\* create_custom_test(test_name, test_function)
create_custom_test(templates, test_name, test_function) ==
  [k \in DOMAIN templates \cup {test_name} |->
     IF k = test_name THEN test_function ELSE templates[k]]

\* The arguments tried: custom_tests is None (or empty) or one fragment; a
\* custom template is registered under a new name or under a name in use.
CustomFragment == <<Line("def test_custom(package_name):", "")>>

CustomTestLists == {<<>>, <<CustomFragment>>}

TestNames == {"basic", "web", "data", "security", "custom"}

\* Number of generate_test_script calls explored in one behaviour.
MaxScripts == 2

\* No validate_package call made.
NoValidation == [op |-> "none"]

\* ------------------------------------------------------ external processes
\* A handler call seen at the grain of the external processes it starts with
\* subprocess.run: the call waits for each process to exit or for the
\* timeout given to subprocess.run to expire.

\* The external processes the handler starts.
Processes ==
  {"engine_probe", "build", "venv", "sandbox_pip", "run", "rmi", "probe",
   "snakepit_install", "pip_install"}

\* The timeout argument (seconds) of each subprocess.run that is given one
\* (for "run", the default of config['validation_timeout']); the venv
\* creation is called without.
Timeout ==
  [p \in Processes \ {"venv"} |->
     CASE p = "engine_probe" -> 5
       [] p = "build" -> 120
       [] p = "sandbox_pip" -> 120
       [] p = "run" -> 60
       [] p = "rmi" -> 30
       [] p = "probe" -> 5
       [] p = "snakepit_install" -> 300
       [] p = "pip_install" -> 300]

HasTimeout(p) == p \in DOMAIN Timeout

\* Processes whose failure or timeout the call swallows and goes on from
\* (the others end the call: it logs the error and returns).
Swallowed == {"engine_probe", "probe", "rmi"}

\* kill_destroy: <engine> rmi with a container engine, no process without.
DestroyPlan == IF container_engine # NoEngine THEN <<"rmi">> ELSE <<>>

\* The processes a call starts, in order, when none of them ends it early.
Plans(op) ==
  CASE op = "detect_container_engine" ->
         {<<"engine_probe">>, <<"engine_probe", "engine_probe">>}
    [] op = "ingest" ->
         IF container_engine # NoEngine
         THEN {<<"build">>}
         ELSE {<<"venv", "sandbox_pip">>}
    [] op = "test_collaborate" -> {<<"run">>}
    [] op = "kill_destroy" -> {DestroyPlan}
    [] op = "conscript_install" ->
         IF dry_run
         THEN {DestroyPlan}
         ELSE {<<"probe", "snakepit_install">> \o DestroyPlan,
               <<"probe", "probe", "snakepit_install">> \o DestroyPlan,
               <<"probe", "probe", "probe", "snakepit_install">> \o DestroyPlan,
               <<"probe", "probe", "probe", "pip_install">> \o DestroyPlan}

CallOps ==
  {"detect_container_engine", "ingest", "test_collaborate", "kill_destroy",
   "conscript_install"}

\* No call in progress.
NoCall == [state |-> "idle"]

\* ----------------------------------------------------------------- actions
\* The outcomes the environment gave the call (kept with the call's record).
\* out is the outcome of the one sandbox command of ingest or test_collaborate;
\* run is the test run's outcome in a call that does both.
Input(out, probe, inst, toml_ok, rmi_ok, rm_ok, io_ok) ==
  [out |-> out, run |-> "", probe |-> probe, inst |-> inst, toml_ok |-> toml_ok,
   rmi_ok |-> rmi_ok, rm_ok |-> rm_ok, io_ok |-> io_ok]

NoInput == Input("", "", "", TRUE, TRUE, TRUE, TRUE)

Commit(s, op, name, input) ==
  /\ active_packages' = s.active_packages
  /\ pkgs' = s.pkgs
  /\ status_log' = s.status_log
  /\ dirs' = s.dirs
  /\ images' = s.images
  /\ history' = s.history
  /\ archived' = s.archived
  /\ dependencies' = s.dependencies
  /\ installs' = s.installs
  /\ sandbox_installs' = s.sandbox_installs
  /\ last' = [op |-> op, name |-> name, id |-> active_packages[name],
              status |-> IF active_packages[name] = NoId THEN "none"
                         ELSE pkgs[active_packages[name]].status,
              ret |-> s.ret, raised |-> s.raised, procs |-> s.procs,
              calls |-> s.calls, input |-> input]
  /\ steps' = steps + 1
  /\ UNCHANGED <<version_checks, container_engine, dry_run, test_templates,
                 scripts, vf, call, wk>>

\* The names the calls are made with: the names of the behaviour (the keys
\* active_packages is given for them; NoId stands for an absent key).
CallNames == DOMAIN active_packages

Ingest ==
  /\ steps < MaxSteps
  /\ Len(pkgs) < MaxRecords
  /\ \E name \in CallNames, version \in Versions, out \in CreateOutcomes :
       Commit(ingest(St, name, version, out), "ingest", name,
              [NoInput EXCEPT !.out = out])

\* The outcomes worth drawing for an input: all of S when the call reads the
\* input, one of them when it does not (the successor is the same).
Drawn(S, read, dflt) == IF read THEN S ELSE {dflt}

IsActive(name) == active_packages[name] # NoId

\* kill_destroy reads its inputs only for an active record, and the image
\* removal's only with a container engine.
WillDestroy(name) == IsActive(name)

\* if sandbox_path.exists(): shutil.rmtree(sandbox_path)
WillRemoveDir(name) == IsActive(name) /\ active_packages[name] \in dirs

WillInstall(name) ==
  IsActive(name) /\ pkgs[active_packages[name]].status = APPROVED

TestCollaborate ==
  /\ steps < MaxSteps
  /\ \E name \in CallNames :
     \E out \in Drawn(RunOutcomes, IsActive(name), "exit0") :
       Commit(test_collaborate(St, name, out), "test_collaborate", name,
              [NoInput EXCEPT !.out = out])

KillDestroy ==
  /\ steps < MaxSteps
  /\ \E name \in CallNames :
     \E rmi_ok \in Drawn(BOOLEAN, WillDestroy(name) /\ container_engine # NoEngine, TRUE) :
     \E rm_ok \in Drawn(BOOLEAN, WillRemoveDir(name), TRUE) :
     \E io_ok \in Drawn(BOOLEAN, WillDestroy(name) /\ (rm_ok \/ ~WillRemoveDir(name)), TRUE) :
       Commit(kill_destroy(St, name, rmi_ok, rm_ok, io_ok), "kill_destroy", name,
              Input("", "", "", TRUE, rmi_ok, rm_ok, io_ok))

ConscriptInstall ==
  /\ steps < MaxSteps
  /\ \E name \in CallNames :
     \E probe \in Drawn(ProbeOutcomes, WillInstall(name) /\ ~dry_run, "none") :
     \E inst \in Drawn(InstallOutcomes,
                       WillInstall(name) /\ ~dry_run /\ probe # "error", "exit0") :
     LET succeeds == WillInstall(name) /\ inst = "exit0" /\ probe # "error" IN
     \E toml_ok \in Drawn(BOOLEAN, succeeds, TRUE) :
     \E rmi_ok \in Drawn(BOOLEAN, succeeds /\ container_engine # NoEngine, TRUE) :
     \E rm_ok \in Drawn(BOOLEAN, succeeds /\ WillRemoveDir(name), TRUE) :
     \E io_ok \in Drawn(BOOLEAN, succeeds /\ (rm_ok \/ ~WillRemoveDir(name)), TRUE) :
       Commit(conscript_install(St, name, probe, inst, toml_ok, rmi_ok, rm_ok, io_ok),
              "conscript_install", name,
              Input("", probe, inst, toml_ok, rmi_ok, rm_ok, io_ok))

\* The orders in which the keys of active_packages can be listed.
ActiveNames == {n \in CallNames : active_packages[n] # NoId}

KeyOrders ==
  {o \in [1..Cardinality(ActiveNames) -> ActiveNames] :
     \A i \in DOMAIN o : \A j \in DOMAIN o : o[i] = o[j] => i = j}

\* cleanup_all(): the clean-up outcomes are read for the active names only.
CleanupAll ==
  /\ steps < MaxSteps
  /\ \E package_names \in KeyOrders :
     \E rmi_ok \in [CallNames -> BOOLEAN], rm_ok \in [CallNames -> BOOLEAN],
        io_ok \in [CallNames -> BOOLEAN] :
       /\ \A n \in CallNames :
            /\ rmi_ok[n] \in Drawn(BOOLEAN, WillDestroy(n) /\ container_engine # NoEngine, TRUE)
            /\ rm_ok[n] \in Drawn(BOOLEAN, WillRemoveDir(n), TRUE)
            /\ io_ok[n] \in Drawn(BOOLEAN, WillDestroy(n) /\ (rm_ok[n] \/ ~WillRemoveDir(n)), TRUE)
       /\ LET s == cleanup_all(St, package_names, rmi_ok, rm_ok, io_ok) IN
            /\ active_packages' = s.active_packages
            /\ pkgs' = s.pkgs
            /\ status_log' = s.status_log
            /\ dirs' = s.dirs
            /\ images' = s.images
            /\ history' = s.history
            /\ archived' = s.archived
            /\ dependencies' = s.dependencies
            /\ installs' = s.installs
            /\ sandbox_installs' = s.sandbox_installs
            /\ last' = [op |-> "cleanup_all", name |-> "", id |-> NoId,
                        status |-> "none", ret |-> s.ret, raised |-> s.raised,
                        procs |-> s.procs, calls |-> s.calls,
                        input |-> [NoInput EXCEPT !.rmi_ok = rmi_ok,
                                                  !.rm_ok = rm_ok,
                                                  !.io_ok = io_ok]]
  /\ steps' = steps + 1
  /\ UNCHANGED <<version_checks, container_engine, dry_run, test_templates,
                 scripts, vf, call, wk>>

\* handle_package reads the test run's outcome after a successful ingest, the
\* installer's after a passed test, and the clean-up's outcomes when it
\* destroys the record (failed ingest, failed test, successful install).
HandlePackage ==
  /\ steps < MaxSteps
  /\ Len(pkgs) < MaxRecords
  /\ \E name \in CallNames, version \in Versions, out \in CreateOutcomes :
     \E run \in Drawn(RunOutcomes, out = "ok", "exit0") :
     LET passes == out = "ok" /\ run = "exit0" IN
     \E probe \in Drawn(ProbeOutcomes, passes /\ ~dry_run, "none") :
     \E inst \in Drawn(InstallOutcomes, passes /\ ~dry_run /\ probe # "error", "exit0") :
     LET destroys == ~passes \/ (inst = "exit0" /\ probe # "error")
         has_dir == out # "mkdir_error"
     IN
     \E toml_ok \in Drawn(BOOLEAN, passes /\ destroys, TRUE) :
     \E rmi_ok \in Drawn(BOOLEAN, destroys /\ container_engine # NoEngine, TRUE) :
     \E rm_ok \in Drawn(BOOLEAN, destroys /\ has_dir, TRUE) :
     \E io_ok \in Drawn(BOOLEAN, destroys /\ (rm_ok \/ ~has_dir), TRUE) :
       Commit(handle_package(St, name, version, out, run, probe, inst,
                             toml_ok, rmi_ok, rm_ok, io_ok),
              "handle_package", name,
              [Input(out, probe, inst, toml_ok, rmi_ok, rm_ok, io_ok)
                 EXCEPT !.run = run])

\* validate_only reads the test run's outcome after a successful ingest and
\* the clean-up's outcomes when it reaches its kill_destroy.  dry_run is True
\* during the call and has its earlier value again when the call is over.
ValidateOnly ==
  /\ steps < MaxSteps
  /\ Len(pkgs) < MaxRecords
  /\ \E name \in CallNames, version \in Versions, out \in CreateOutcomes :
     \E run \in Drawn(RunOutcomes, out = "ok", "exit0") :
     \E rmi_ok \in Drawn(BOOLEAN, out = "ok" /\ container_engine # NoEngine, TRUE) :
     \E rm_ok \in Drawn(BOOLEAN, out = "ok", TRUE) :
     \E io_ok \in Drawn(BOOLEAN, out = "ok" /\ rm_ok, TRUE) :
       Commit(validate_only(St, name, version, out, run, rmi_ok, rm_ok, io_ok),
              "validate_only", name,
              [Input(out, "", "", TRUE, rmi_ok, rm_ok, io_ok) EXCEPT !.run = run])

\* cmd_validate reads the clean-up's outcomes on each of its paths.
CmdValidate ==
  /\ steps < MaxSteps
  /\ Len(pkgs) < MaxRecords
  /\ \E name \in CallNames, version \in Versions, out \in CreateOutcomes :
     \E run \in Drawn(RunOutcomes, out = "ok", "exit0") :
     \E rmi_ok \in Drawn(BOOLEAN, container_engine # NoEngine, TRUE) :
     \E rm_ok \in Drawn(BOOLEAN, out # "mkdir_error", TRUE) :
     \E io_ok \in Drawn(BOOLEAN, rm_ok \/ out = "mkdir_error", TRUE) :
       Commit(cmd_validate(St, name, version, out, run, rmi_ok, rm_ok, io_ok),
              "cmd_validate", name,
              [Input(out, "", "", TRUE, rmi_ok, rm_ok, io_ok) EXCEPT !.run = run])

\* One validate_package call; the driver's test outcomes are read only when
\* the driver runs to its exit and the level has the test, the package's
\* files only when the scan runs, its printed text only when it is imported.
ValidatePackage ==
  /\ vf = NoValidation
  /\ \E level \in ValidationLevel, out \in DriverOutcomes :
     LET ran == out = "completed" IN
     \E basic \in Drawn(BasicOutcomes, ran /\ HasBasicTemplate(level), "pass") :
     \E ext \in Drawn(ExtendedOutcomes, ran /\ RunsExtendedTests(level), "ok") :
     \E perf \in Drawn(PerformanceOutcomes, ran /\ RunsPerformanceTest(level), "fast") :
     \E files \in Drawn(PackageFiles, ran /\ RunsSecurityScan(level), <<>>) :
     \E printed \in Drawn(PrintedTexts, ran /\ ImportsPackage(level), <<>>) :
       vf' = [op |-> "validate_package", level |-> level, out |-> out,
              files |-> files, printed |-> printed,
              package |-> [basic |-> basic, ext |-> ext, perf |-> perf],
              driver |-> RunValidation(level, basic, ext, perf),
              result |-> validate_package(level, out, basic, ext, perf, files,
                                          printed)]
  /\ UNCHANGED <<version_checks, container_engine, dry_run, test_templates,
                 scripts, active_packages, pkgs, status_log,
                 dirs, images, history, archived, dependencies, installs,
                 sandbox_installs, last,
                 steps, call, wk>>

\* One _security_scan call.
SecurityScan ==
  /\ vf = NoValidation
  /\ \E files \in FileLists :
       vf' = [op |-> "_security_scan", files |-> files,
              findings |-> security_scan(files)]
  /\ UNCHANGED <<version_checks, container_engine, dry_run, test_templates,
                 scripts, active_packages, pkgs, status_log,
                 dirs, images, history, archived, dependencies, installs,
                 sandbox_installs, last,
                 steps, call, wk>>

\* One generate_test_script call, noted with its arguments and its result.
GenerateTestScript ==
  /\ vf = NoValidation
  /\ Len(scripts) < MaxScripts
  /\ \E package_name \in PackageNames, level \in ValidationLevel,
        custom_tests \in CustomTestLists :
       scripts' = Append(scripts,
                    [package_name |-> package_name, validation_level |-> level,
                     custom_tests |-> custom_tests,
                     text |-> generate_test_script(test_templates, package_name,
                                                   level, custom_tests)])
  /\ UNCHANGED <<version_checks, container_engine, dry_run, test_templates,
                 active_packages, pkgs, status_log, dirs, images, history,
                 archived, dependencies, installs,
                 sandbox_installs, last, steps, vf, call, wk>>

\* One create_custom_test call (one such call in a behaviour).
CreateCustomTest ==
  /\ vf = NoValidation
  /\ test_templates = LoadTestTemplates
  /\ \E test_name \in TestNames :
       test_templates' = create_custom_test(test_templates, test_name, CustomFragment)
  /\ UNCHANGED <<version_checks, container_engine, dry_run, scripts,
                 active_packages, pkgs, status_log, dirs, images, history,
                 archived, dependencies, installs,
                 sandbox_installs, last, steps, vf, call, wk>>

\* A call starts: op(...) is entered.
StartCall ==
  /\ call.state \in {"idle", "returned"}
  /\ steps < MaxSteps
  /\ \E op \in CallOps : \E plan \in Plans(op) :
       call' = [state |-> "running", op |-> op, todo |-> plan]
  /\ steps' = steps + 1
  /\ UNCHANGED <<version_checks, container_engine, dry_run, test_templates,
                 scripts, active_packages, pkgs, status_log,
                 dirs, images, history, archived, dependencies, installs,
                 sandbox_installs, last, vf,
                 wk>>

\* subprocess.run(...) is called: the call waits; terminates tells whether
\* the process started is one that ever exits by itself.
StartProcess ==
  /\ call.state = "running"
  /\ call.todo # <<>>
  /\ \E terminates \in BOOLEAN :
       call' = [state |-> "waiting", op |-> call.op, todo |-> Tail(call.todo),
                process |-> Head(call.todo), terminates |-> terminates]
  /\ UNCHANGED <<version_checks, container_engine, dry_run, test_templates,
                 scripts, active_packages, pkgs, status_log,
                 dirs, images, history, archived, dependencies, installs,
                 sandbox_installs, last,
                 steps, vf, wk>>

\* The call goes on after a process: with the rest of its plan, or (a failure
\* it does not swallow) to its return.
GoOn(failed) ==
  \E rest \in IF failed /\ call.process \notin Swallowed
               THEN {<<>>}
               ELSE IF failed THEN {call.todo} ELSE {call.todo, <<>>} :
    call' = [state |-> "running", op |-> call.op, todo |-> rest]

\* The process exits (with status 0 or not): subprocess.run returns or raises
\* CalledProcessError.
ProcessExits ==
  /\ call.state = "waiting"
  /\ call.terminates
  /\ \E failed \in BOOLEAN : GoOn(failed)
  /\ UNCHANGED <<version_checks, container_engine, dry_run, test_templates,
                 scripts, active_packages, pkgs, status_log,
                 dirs, images, history, archived, dependencies, installs,
                 sandbox_installs, last,
                 steps, vf, wk>>

\* The timeout given to subprocess.run expires: the process is killed and
\* TimeoutExpired is raised in the call.
TimeoutExpires ==
  /\ call.state = "waiting"
  /\ HasTimeout(call.process)
  /\ Timeout[call.process] > 0
  /\ GoOn(TRUE)
  /\ UNCHANGED <<version_checks, container_engine, dry_run, test_templates,
                 scripts, active_packages, pkgs, status_log,
                 dirs, images, history, archived, dependencies, installs,
                 sandbox_installs, last,
                 steps, vf, wk>>

\* The call returns.
ReturnFromCall ==
  /\ call.state = "running"
  /\ call.todo = <<>>
  /\ call' = [state |-> "returned", op |-> call.op]
  /\ UNCHANGED <<version_checks, container_engine, dry_run, test_templates,
                 scripts, active_packages, pkgs, status_log,
                 dirs, images, history, archived, dependencies, installs,
                 sandbox_installs, last,
                 steps, vf, wk>>

\* ------------------------------------------------------------ two workers
\* Two threads call methods of one handler.  Nothing in the handler locks, so
\* the threads interleave between statements: each step below is one
\* statement (or one run of statements touching nothing shared) of the method.
\* A worker's locals: pc (the statement it is at), name (its argument), id
\* (pkg_meta of test_collaborate / conscript_install), kid (pkg_meta of
\* kill_destroy), ok (success), h (the list _save_package_history loaded),
\* stack (what it returns to), ret and raised (how its outermost call ended),
\* during_test (all its steps so far were made while the other worker was
\* inside test_collaborate).
Workers == {"A", "B"}

Other(w) == IF w = "A" THEN "B" ELSE "A"

WorkerNames == {"pkg", "lib"}

NoWorkers == [w \in Workers |-> [pc |-> "done"]]

\* The statements of test_collaborate.
TestLabels == {"tc_check", "tc_lookup", "tc_status", "tc_run", "tc_verdict"}

Local(prog, name, pc, stack) ==
  [prog |-> prog, name |-> name, pc |-> pc, stack |-> stack, id |-> NoId,
   kid |-> NoId, ok |-> FALSE, h |-> <<>>, ret |-> FALSE, raised |-> FALSE,
   during_test |-> TRUE]

\* handle_package(name), after its ingest returned a record in TESTING: it
\* is about to call test_collaborate.
HandlePackageAfterIngest(name) ==
  Local("handle_package", name, "tc_check", <<"hp_tested">>)

\* kill_destroy(name), about to execute its first statement.
KillDestroyCall(name) == Local("kill_destroy", name, "kd_check", <<"top">>)

\* The outermost call of the worker is over.
Done(l, v, raised) ==
  [l EXCEPT !.pc = "done", !.stack = <<>>, !.ret = v, !.raised = raised]

\* return v: the worker goes on in the caller.  handle_package calls
\* kill_destroy after a False from test_collaborate and conscript_install
\* after a True; conscript_install returns True after its own kill_destroy.
Return(s, l, v) ==
  LET top == Head(l.stack) IN
  CASE top = "hp_tested" ->
         IF v
         THEN [s |-> s, l |-> [l EXCEPT !.pc = "ci_check", !.stack = <<"hp_conscripted">>]]
         ELSE [s |-> s, l |-> [l EXCEPT !.pc = "kd_check", !.stack = <<"hp_killed">>]]
    [] top = "hp_killed" -> [s |-> s, l |-> Done(l, FALSE, FALSE)]
    [] top = "ci_cleanup" -> [s |-> s, l |-> Done(l, TRUE, FALSE)]
    [] OTHER -> [s |-> s, l |-> Done(l, v, FALSE)]

\* An exception leaves the method (the KeyError of a lookup made outside the
\* method's try): inside conscript_install's try it is caught there (FAILED,
\* logged, False); otherwise it leaves handle_package and the worker's call.
Raise(s, l) ==
  IF Head(l.stack) = "ci_cleanup"
  THEN [s |-> InstallRaised(s, l.id), l |-> Done(l, FALSE, FALSE)]
  ELSE [s |-> s, l |-> Done(l, FALSE, TRUE)]

\* A step of worker w ends: the handler is as in r.s, the worker as in r.l.
WCommit(w, r) ==
  /\ active_packages' = r.s.active_packages
  /\ pkgs' = r.s.pkgs
  /\ status_log' = r.s.status_log
  /\ dirs' = r.s.dirs
  /\ images' = r.s.images
  /\ history' = r.s.history
  /\ archived' = r.s.archived
  /\ dependencies' = r.s.dependencies
  /\ installs' = r.s.installs
  /\ sandbox_installs' = r.s.sandbox_installs
  /\ wk' = [wk EXCEPT ![w] =
              [r.l EXCEPT !.during_test = @ /\ wk[Other(w)].pc \in TestLabels]]
  /\ UNCHANGED <<version_checks, container_engine, dry_run, test_templates,
                 scripts, last, steps, vf, call>>

\* The worker goes to statement pc.
Goto(l, pc) == [s |-> St, l |-> [l EXCEPT !.pc = pc]]

\* if package_name not in self.active_packages: return False
\* (test_collaborate, kill_destroy and conscript_install all begin so)
CheckActive(w, here, next) ==
  LET l == wk[w] IN
  /\ l.pc = here
  /\ WCommit(w, IF active_packages[l.name] = NoId
                 THEN Return(St, l, FALSE)
                 ELSE Goto(l, next))

TcCheck(w) == CheckActive(w, "tc_check", "tc_lookup")

\* pkg_meta = self.active_packages[package_name]   (before the try)
TcLookup(w) ==
  LET l == wk[w] IN
  /\ l.pc = "tc_lookup"
  /\ WCommit(w, IF active_packages[l.name] = NoId
                 THEN Raise(St, l)
                 ELSE [s |-> St,
                       l |-> [l EXCEPT !.pc = "tc_status",
                                       !.id = active_packages[l.name]]])

\* pkg_meta.status = COLLABORATING; pkg_meta.test_time = time.time()
TcStatus(w) ==
  LET l == wk[w] IN
  /\ l.pc = "tc_status"
  /\ WCommit(w, [s |-> [SetStatus(St, l.id, COLLABORATING)
                          EXCEPT !.pkgs[l.id].test_time = TRUE],
                 l |-> [l EXCEPT !.pc = "tc_run"]])

\* success = self._test_in_container(pkg_meta) / self._test_in_venv(pkg_meta):
\* the worker is at tc_run while the sandbox run is in flight, and the step
\* is the run's end.
TcRun(w) ==
  LET l == wk[w] IN
  /\ l.pc = "tc_run"
  /\ \E out \in RunOutcomes :
       LET s1 == IF container_engine # NoEngine
                 THEN TestInContainer(St, l.id, out)
                 ELSE TestInVenv(St, l.id, out)
       IN WCommit(w, [s |-> s1, l |-> [l EXCEPT !.pc = "tc_verdict", !.ok = s1.ret]])

\* if success: APPROVED, return True; else: FAILED, return False
TcVerdict(w) ==
  LET l == wk[w] IN
  /\ l.pc = "tc_verdict"
  /\ WCommit(w, Return(TestVerdict([St EXCEPT !.ret = l.ok], l.id), l, l.ok))

KdCheck(w) == CheckActive(w, "kd_check", "kd_lookup")

\* pkg_meta = self.active_packages[package_name]   (before the try)
KdLookup(w) ==
  LET l == wk[w] IN
  /\ l.pc = "kd_lookup"
  /\ WCommit(w, IF active_packages[l.name] = NoId
                 THEN Raise(St, l)
                 ELSE [s |-> St,
                       l |-> [l EXCEPT !.pc = "kd_rmi",
                                       !.kid = active_packages[l.name]]])

\* if self.container_engine: <engine> rmi -f ... (failures swallowed)
KdRemoveImage(w) ==
  LET l == wk[w] IN
  /\ l.pc = "kd_rmi"
  /\ \E rmi_ok \in Drawn(BOOLEAN, container_engine # NoEngine, TRUE) :
       WCommit(w, [s |-> RemoveImage(St, l.kid, rmi_ok),
                   l |-> [l EXCEPT !.pc = "kd_rmtree"]])

\* if sandbox_path.exists(): shutil.rmtree(sandbox_path); rmtree raising is
\* caught by kill_destroy's except: return False.
KdRemoveTree(w) ==
  LET l == wk[w] IN
  /\ l.pc = "kd_rmtree"
  /\ \E rm_ok \in Drawn(BOOLEAN, l.kid \in dirs, TRUE) :
       WCommit(w, IF rm_ok
                  THEN [s |-> [St EXCEPT !.dirs = @ \ {l.kid}],
                        l |-> [l EXCEPT !.pc = "kd_status"]]
                  ELSE Return(St, l, FALSE))

\* pkg_meta.status = DESTROYED; pkg_meta.success_log.append(...)
KdStatus(w) ==
  LET l == wk[w] IN
  /\ l.pc = "kd_status"
  /\ WCommit(w, [s |-> LogSuccess(SetStatus(St, l.kid, DESTROYED), l.kid,
                                   "Package sandbox destroyed"),
                 l |-> [l EXCEPT !.pc = "kd_read"]])

\* _save_package_history: history = json.load(f); a failure is swallowed and
\* nothing is written.
KdHistoryRead(w) ==
  LET l == wk[w] IN
  /\ l.pc = "kd_read"
  /\ \E io_ok \in BOOLEAN :
       WCommit(w, IF io_ok
                  THEN [s |-> St, l |-> [l EXCEPT !.pc = "kd_write", !.h = history]]
                  ELSE Goto(l, "kd_del"))

\* _save_package_history: history.append(...); the truncation;
\* json.dump(history, f); a failure is swallowed.
KdHistoryWrite(w) ==
  LET l == wk[w]
      e == HistoryEntry(pkgs[l.kid])
  IN
  /\ l.pc = "kd_write"
  /\ \E io_ok \in BOOLEAN :
       WCommit(w, IF io_ok
                  THEN [s |-> [St EXCEPT !.history = LastEntries(Append(l.h, e)),
                                         !.archived = Append(@, e)],
                        l |-> [l EXCEPT !.pc = "kd_del", !.h = <<>>]]
                  ELSE Goto([l EXCEPT !.h = <<>>], "kd_del"))

\* del self.active_packages[package_name]; return True.  A KeyError here is
\* inside the try: kill_destroy's except returns False.
KdDelete(w) ==
  LET l == wk[w] IN
  /\ l.pc = "kd_del"
  /\ WCommit(w, IF active_packages[l.name] = NoId
                 THEN Return(St, l, FALSE)
                 ELSE Return([St EXCEPT !.active_packages[l.name] = NoId], l, TRUE))

CiCheck(w) == CheckActive(w, "ci_check", "ci_lookup")

\* pkg_meta = self.active_packages[package_name]   (before the try)
CiLookup(w) ==
  LET l == wk[w] IN
  /\ l.pc = "ci_lookup"
  /\ WCommit(w, IF active_packages[l.name] = NoId
                 THEN Raise(St, l)
                 ELSE [s |-> St,
                       l |-> [l EXCEPT !.pc = "ci_status",
                                       !.id = active_packages[l.name]]])

\* if pkg_meta.status != APPROVED: return False; install_time = time.time()
CiStatus(w) ==
  LET l == wk[w] IN
  /\ l.pc = "ci_status"
  /\ WCommit(w, IF ~Installable(pkgs[l.id])
                 THEN Return(St, l, FALSE)
                 ELSE [s |-> [St EXCEPT !.pkgs[l.id].install_time = TRUE],
                       l |-> [l EXCEPT !.pc = "ci_install"]])

\* The dry-run branch, or the probe and the installer command.
CiInstall(w) ==
  LET l == wk[w] IN
  /\ l.pc = "ci_install"
  /\ \E probe \in Drawn(ProbeOutcomes, ~dry_run, "none") :
     \E inst \in Drawn(InstallOutcomes, ~dry_run /\ probe # "error", "exit0") :
       WCommit(w,
         IF DryRun
         THEN Goto(l, "ci_success")
         ELSE LET s1 == Started(St, "probe") IN
              IF probe = "error"
              THEN Return(InstallRaised(s1, l.id), l, FALSE)
              ELSE LET bin == IF probe = "none" THEN "pip_install"
                              ELSE "snakepit_install"
                       s2 == RunInstaller(s1, l.id, bin)
                   IN CASE inst = "exit0" ->
                             [s |-> s2, l |-> [l EXCEPT !.pc = "ci_success"]]
                        [] inst = "nonzero" -> Return(InstallFailed(s2, l.id), l, FALSE)
                        [] OTHER -> Return(InstallRaised(s2, l.id), l, FALSE))

\* if success: CONSCRIPTED, the dependency graph, self.kill_destroy(name)
CiSuccess(w) ==
  LET l == wk[w] IN
  /\ l.pc = "ci_success"
  /\ \E toml_ok \in BOOLEAN :
       LET s0 == LogSuccess(SetStatus(St, l.id, CONSCRIPTED), l.id,
                            "Package installed successfully")
       IN WCommit(w, [s |-> UpdateDependencyGraph(s0, l.id, toml_ok),
                      l |-> [l EXCEPT !.pc = "kd_check", !.stack = <<"ci_cleanup">>]])

\* A handler just constructed: no record, no sandbox; no call made.
\* The handler after __init__, in a behaviour whose calls name `names`.
InitHandlerWith(names) ==
  /\ version_checks \in VersionChecks
  /\ container_engine = DetectContainerEngine(version_checks)
  /\ dry_run \in BOOLEAN
  /\ active_packages = [n \in names |-> NoId]
  /\ pkgs = <<>>
  /\ status_log = <<>>
  /\ dirs = {}
  /\ images = {}
  /\ dependencies = {}
  /\ installs = {}
  /\ sandbox_installs = {}
  /\ last = [op |-> "init", name |-> "", id |-> NoId, status |-> "none",
             ret |-> FALSE, raised |-> FALSE, procs |-> {}, calls |-> <<>>,
             input |-> NoInput]
  /\ steps = 0
  /\ vf = NoValidation
  /\ call = NoCall
  /\ wk = NoWorkers
  /\ test_templates = LoadTestTemplates
  /\ scripts = <<>>

InitHandler == InitHandlerWith(Names)

\* The handler's first run: there is no history file yet.
Init ==
  /\ InitHandler
  /\ history = <<>>
  /\ archived = <<>>

\* An entry written to the history file by an earlier run of the program
\* (ids of earlier runs are shown as negative numbers).
EarlierEntry(k) ==
  [name |-> "pkg", version |-> "", status |-> DESTROYED, sandbox_id |-> 0 - k,
   error_log |-> <<>>, success_log |-> <<"Package sandbox destroyed">>]

\* A later run, on a machine without container engine: earlier runs left the
\* history file one entry short of the cap, or full.
InitHistory ==
  /\ InitHandler
  /\ container_engine = NoEngine
  /\ ~dry_run
  /\ \E n \in {HistoryCap - 1, HistoryCap} :
       history = [k \in 1..n |-> EarlierEntry(n + 1 - k)]
  /\ archived = history

Next ==
  \/ Ingest
  \/ TestCollaborate
  \/ KillDestroy
  \/ ConscriptInstall

Spec == Init /\ [][Next]_vars

\* The composite workflow: a behaviour is some ingest and kill_destroy calls
\* (they leave no record, a record being tested, a failed one, or the leftover
\* of a failed kill_destroy) and then one handle_package call, which makes two
\* or three calls itself: the calls before it leave room for two of them.
NotHandledYet == last.op # "handle_package"

RoomForWorkflow == steps + 2 < MaxSteps

NextHandle ==
  \/ NotHandledYet /\ RoomForWorkflow /\ Ingest
  \/ NotHandledYet /\ RoomForWorkflow /\ KillDestroy
  \/ NotHandledYet /\ HandlePackage

SpecHandle == Init /\ [][NextHandle]_vars

\* The handler before any call, with a key for each of the two names.
EmptyHandler ==
  [active_packages |-> [n \in WorkerNames |-> NoId], pkgs |-> <<>>,
   status_log |-> <<>>, dirs |-> {}, images |-> {}, history |-> <<>>,
   archived |-> <<>>, dependencies |-> {}, installs |-> {},
   sandbox_installs |-> {},
   ret |-> FALSE, raised |-> FALSE, procs |-> {}, calls |-> <<>>]

\* Two packages have been ingested, both sandboxes were created (TESTING).
\* Worker A is in handle_package("pkg") after that ingest, or calls
\* kill_destroy("pkg"); worker B calls kill_destroy on one of the names.
InitWorkers ==
  /\ version_checks \in VersionChecks
  /\ container_engine = DetectContainerEngine(version_checks)
  /\ dry_run \in BOOLEAN
  /\ LET s == ingest(ingest(EmptyHandler, "pkg", "1.0", "ok"), "lib", "", "ok") IN
       /\ active_packages = s.active_packages
       /\ pkgs = s.pkgs
       /\ status_log = s.status_log
       /\ dirs = s.dirs
       /\ images = s.images
       /\ history = s.history
       /\ archived = s.archived
       /\ dependencies = s.dependencies
       /\ installs = s.installs
       /\ sandbox_installs = s.sandbox_installs
  /\ last = [op |-> "init", name |-> "", id |-> NoId, status |-> "none",
             ret |-> FALSE, raised |-> FALSE, procs |-> {}, calls |-> <<>>,
             input |-> NoInput]
  /\ steps = 0
  /\ vf = NoValidation
  /\ call = NoCall
  /\ test_templates = LoadTestTemplates
  /\ scripts = <<>>
  /\ \E a \in {HandlePackageAfterIngest("pkg"), KillDestroyCall("pkg")} :
     \E b \in {KillDestroyCall("pkg"), KillDestroyCall("lib")} :
       wk = [w \in Workers |-> IF w = "A" THEN a ELSE b]

NextWorkers ==
  \E w \in Workers :
    \/ TcCheck(w)
    \/ TcLookup(w)
    \/ TcStatus(w)
    \/ TcRun(w)
    \/ TcVerdict(w)
    \/ KdCheck(w)
    \/ KdLookup(w)
    \/ KdRemoveImage(w)
    \/ KdRemoveTree(w)
    \/ KdStatus(w)
    \/ KdHistoryRead(w)
    \/ KdHistoryWrite(w)
    \/ KdDelete(w)
    \/ CiCheck(w)
    \/ CiLookup(w)
    \/ CiStatus(w)
    \/ CiInstall(w)
    \/ CiSuccess(w)

SpecWorkers == InitWorkers /\ [][NextWorkers]_vars

\* Handler calls seen process by process.
NextBlocking ==
  \/ StartCall
  \/ StartProcess
  \/ ProcessExits
  \/ TimeoutExpires
  \/ ReturnFromCall

SpecBlocking == Init /\ [][NextBlocking]_vars

\* Archivals on a history file that is about to reach the cap.
NextHistory ==
  \/ Ingest
  \/ KillDestroy

SpecHistory == InitHistory /\ [][NextHistory]_vars

\* The handler and the validation framework share no state: a behaviour is
\* either handler calls or a validate_package call.
NoHandlerCall == steps = 0

NextValidation ==
  \/ vf = NoValidation /\ Ingest
  \/ vf = NoValidation /\ TestCollaborate
  \/ vf = NoValidation /\ KillDestroy
  \/ vf = NoValidation /\ ConscriptInstall
  \/ NoHandlerCall /\ ValidatePackage

SpecValidation == Init /\ [][NextValidation]_vars

\* The four primitives and the shutdown clean-up.
NextCleanup ==
  \/ Ingest
  \/ TestCollaborate
  \/ KillDestroy
  \/ ConscriptInstall
  \/ CleanupAll

SpecCleanup == Init /\ [][NextCleanup]_vars

\* The validation framework alone, on a machine without container engine:
\* a behaviour is create_custom_test and generate_test_script calls, or one
\* _security_scan call.
\* The validate-only flows: some ingest and kill_destroy calls, then one
\* validate_only or cmd_validate call.
NotValidatedYet == last.op \notin {"validate_only", "cmd_validate"}

NextValidateOnly ==
  \/ NotValidatedYet /\ RoomForWorkflow /\ Ingest
  \/ NotValidatedYet /\ RoomForWorkflow /\ KillDestroy
  \/ NotValidatedYet /\ ValidateOnly
  \/ NotValidatedYet /\ CmdValidate

SpecValidateOnly == Init /\ [][NextValidateOnly]_vars

\* Shutdown: calls naming two packages, then one cleanup_all (the last call
\* of a run), on a machine with podman or with no container engine.
InitShutdown ==
  /\ InitHandlerWith(WorkerNames)
  /\ ~version_checks.docker
  /\ ~dry_run
  /\ history = <<>>
  /\ archived = <<>>

NotCleanedUp == last.op # "cleanup_all"

NextShutdown ==
  \/ NotCleanedUp /\ RoomForWorkflow /\ Ingest
  \/ NotCleanedUp /\ RoomForWorkflow /\ TestCollaborate
  \/ NotCleanedUp /\ CleanupAll

SpecShutdown == InitShutdown /\ [][NextShutdown]_vars

InitFramework ==
  /\ Init
  /\ version_checks = [podman |-> FALSE, docker |-> FALSE]
  /\ ~dry_run

NoFrameworkCall == scripts = <<>> /\ test_templates = LoadTestTemplates

NextFramework ==
  \/ vf = NoValidation /\ GenerateTestScript
  \/ vf = NoValidation /\ CreateCustomTest
  \/ NoFrameworkCall /\ SecurityScan

SpecFramework == InitFramework /\ [][NextFramework]_vars

\* ================================================================== claims
InstallerProcs == {"snakepit_install", "pip_install"}

Records == 1..Len(pkgs)

\* C1: the external installer (snakepit binary or pip) is started only by a
\* conscript_install call that finds an active record whose status is
\* APPROVED at that moment; a conscript_install that finds no record, or a
\* record in any other status, returns False and starts no installer.
C1_InstallerOnlyWhenApproved ==
  /\ (last.procs \cap InstallerProcs # {} =>
        /\ last.op = "conscript_install"
        /\ last.id # NoId
        /\ last.status = APPROVED)
  /\ (last.op = "conscript_install" /\ last.status # APPROVED =>
        /\ last.ret = FALSE
        /\ last.procs = {})
  /\ \A i \in installs : i.status = APPROVED

\* C1 witness: a conscript_install has started an installer.
C1_Witness ==
  /\ last.op = "conscript_install"
  /\ last.procs \cap InstallerProcs # {}
  /\ installs # {}

\* C2: a record whose status becomes APPROVED or CONSCRIPTED was, earlier in
\* its own status history, TESTING and after that COLLABORATING.
C2_NoPhaseSkipped ==
  \A id \in Records :
    \A i \in 1..Len(status_log[id]) :
      status_log[id][i] \in {APPROVED, CONSCRIPTED} =>
        \E j \in 1..i, k \in 1..i :
          /\ j < k /\ k < i
          /\ status_log[id][j] = TESTING
          /\ status_log[id][k] = COLLABORATING

\* C2 witness: a record went through APPROVED to CONSCRIPTED.
C2_Witness ==
  \E id \in Records :
    /\ \E i \in 1..Len(status_log[id]) : status_log[id][i] = CONSCRIPTED
    /\ \E i \in 1..Len(status_log[id]) : status_log[id][i] = APPROVED

\* The edges of the lifecycle state machine as the specification draws it.
LifecycleEdges ==
  {<<PENDING, INGESTING>>, <<INGESTING, TESTING>>, <<INGESTING, FAILED>>,
   <<TESTING, COLLABORATING>>, <<COLLABORATING, APPROVED>>,
   <<COLLABORATING, FAILED>>, <<APPROVED, CONSCRIPTED>>, <<APPROVED, FAILED>>,
   <<FAILED, DESTROYED>>, <<CONSCRIPTED, DESTROYED>>}

\* The edges the handler adds: test_collaborate and kill_destroy act on a
\* record in whatever status it is held.
RetestEdges ==
  {<<FAILED, COLLABORATING>>, <<APPROVED, COLLABORATING>>,
   <<CONSCRIPTED, COLLABORATING>>}

CancelEdges == {<<TESTING, DESTROYED>>, <<APPROVED, DESTROYED>>}

\* Every change of status made so far: the pairs of consecutive values of
\* each record's status.
StatusChanges ==
  UNION {{<<status_log[id][i], status_log[id][i + 1]>> :
            i \in 1..(Len(status_log[id]) - 1)} : id \in Records}

\* C3 (as claimed): every status change is one of the ten edges of the
\* lifecycle state machine.
C3_OnlyLifecycleEdges == StatusChanges \subseteq LifecycleEdges

\* C3 (amended): every status change is one of the ten edges, a re-test edge
\* (FAILED, APPROVED or CONSCRIPTED to COLLABORATING) or a cancel edge (TESTING
\* or APPROVED to DESTROYED).
C3_OnlyHandlerEdges ==
  StatusChanges \subseteq (LifecycleEdges \cup RetestEdges \cup CancelEdges)

\* C3 witness: a record was destroyed while in TESTING and a failed record
\* was tested again.
C3_Witness ==
  /\ <<TESTING, DESTROYED>> \in StatusChanges
  /\ <<FAILED, COLLABORATING>> \in StatusChanges


\* The history entries written for the record with sandbox id `id`.
EntriesOf(id) == {i \in 1..Len(history) : history[i].sandbox_id = id}

\* C4: after a conscript_install that returned True and whose implicit
\* kill_destroy archived the record (the history file being writable), the
\* history holds exactly one entry for the record, with status "conscripted".
C4_ArchivedAsConscripted ==
  (/\ last.op = "conscript_install"
   /\ last.ret = TRUE
   /\ active_packages[last.name] = NoId
   /\ last.input.io_ok) =>
     /\ Cardinality(EntriesOf(last.id)) = 1
     /\ \A i \in EntriesOf(last.id) : history[i].status = CONSCRIPTED

\* C5: whenever kill_destroy is called on an active record (the history file
\* being writable), on return the record is archived with status DESTROYED and
\* is no longer active, also when removing its sandbox directory raised.
C5_DestroyAlwaysArchives ==
  (/\ last.op = "kill_destroy"
   /\ last.id # NoId
   /\ last.input.io_ok) =>
     /\ active_packages[last.name] = NoId
     /\ \E i \in EntriesOf(last.id) : history[i].status = DESTROYED

\* C6: of two kill_destroy calls in a row on the same name, the second finds
\* no active record, returns False, raises nothing and changes neither the
\* active set nor the history.
C6_SecondDestroyIsNoOp ==
  [][(/\ last.op = "kill_destroy"
      /\ last'.op = "kill_destroy"
      /\ last'.name = last.name
      /\ steps' = steps + 1) =>
        /\ last'.id = NoId
        /\ last'.ret = FALSE
        /\ ~last'.raised
        /\ active_packages' = active_packages
        /\ history' = history]_vars

\* C7: with dry_run set, conscript_install on an APPROVED record starts
\* neither the snakepit binary probe nor an installer, returns True and sets
\* the status to CONSCRIPTED (the implicit kill_destroy may then set DESTROYED).
C7_DryRunStartsNoInstaller ==
  (/\ last.op = "conscript_install"
   /\ dry_run
   /\ last.status = APPROVED) =>
     LET log == status_log[last.id]
         n == Len(log)
     IN /\ last.procs \cap ({"probe"} \cup InstallerProcs) = {}
        /\ \A i \in installs : i.id # last.id
        /\ last.ret = TRUE
        /\ \/ log[n - 1] = APPROVED /\ log[n] = CONSCRIPTED
           \/ log[n - 2] = APPROVED /\ log[n - 1] = CONSCRIPTED /\ log[n] = DESTROYED

\* C7 witness: a dry-run conscript_install of an APPROVED record returned.
C7_Witness ==
  /\ last.op = "conscript_install"
  /\ dry_run
  /\ last.status = APPROVED
  /\ last.ret = TRUE

\* C8: for an active record test_collaborate raises nothing, and on return
\* the status is APPROVED exactly when it returned True and FAILED exactly
\* when it returned False (so never COLLABORATING), whatever the sandbox run
\* did.
C8_TestEndsApprovedOrFailed ==
  (last.op = "test_collaborate" /\ last.id # NoId) =>
     /\ ~last.raised
     /\ last.ret \in BOOLEAN
     /\ (last.ret = TRUE <=> pkgs[last.id].status = APPROVED)
     /\ (last.ret = FALSE <=> pkgs[last.id].status = FAILED)
     /\ pkgs[last.id].status # COLLABORATING

\* C8 witness: test_collaborate returned from a sandbox run that timed out or
\* could not be started.
C8_Witness ==
  /\ last.op = "test_collaborate"
  /\ last.id # NoId
  /\ last.input.out \in {"timeout", "error"}
  /\ last.ret = FALSE

\* C9: every record whose status is FAILED has a non-empty error_log.
C9_FailedHasErrorLog ==
  \A id \in Records : pkgs[id].status = FAILED => Len(pkgs[id].error_log) > 0

\* C9 witness: a record that was ingested and approved without an error is
\* FAILED after an installer failure.
C9_Witness ==
  /\ last.op = "conscript_install"
  /\ last.status = APPROVED
  /\ pkgs[last.id].status = FAILED
  /\ Len(pkgs[last.id].error_log) = 1

\* C10: whenever conscript_install returns True the record is no longer
\* active and its sandbox directory and image are gone.
C10_ConscriptLeavesNoSandbox ==
  (last.op = "conscript_install" /\ last.ret = TRUE) =>
     /\ active_packages[last.name] = NoId
     /\ last.id \notin dirs
     /\ last.id \notin images

\* C11: when the installer that conscript_install started for an APPROVED
\* record fails (non-zero exit, or the timeout / a spawn error raising), the
\* call returns False without raising, the record is FAILED with a longer
\* error_log, it is still the active record of its name, its sandbox
\* directory and image are as they were, and the history is unchanged.
InstallerFailed(l) ==
  /\ l.op = "conscript_install"
  /\ l.status = APPROVED
  /\ l.procs \cap InstallerProcs # {}
  /\ l.input.inst \in {"nonzero", "error"}

C11_InstallerFailureKeepsRecord ==
  [][InstallerFailed(last') =>
       LET id == last'.id IN
         /\ ~last'.raised
         /\ last'.ret = FALSE
         /\ pkgs'[id].status = FAILED
         /\ Len(pkgs'[id].error_log) > Len(pkgs[id].error_log)
         /\ active_packages'[last'.name] = id
         /\ (id \in dirs') = (id \in dirs)
         /\ (id \in images') = (id \in images)
         /\ history' = history]_vars

C11_Witness ==
  /\ InstallerFailed(last)
  /\ last.input.inst = "error"
  /\ pkgs[last.id].status = FAILED
  /\ last.id \in dirs

\* What the handler holds and has done: the fields of St a method changes,
\* without the return value and the note of the calls.
Effect(s) ==
  <<s.active_packages, s.pkgs, s.status_log, s.dirs, s.images, s.history,
    s.dependencies, s.installs>>

\* The primitives called one after the other by a caller that destroys the
\* record after a failed ingest or a failed test and installs it otherwise;
\* i holds the outcomes the environment gives.
PrimitivesInTurn(s, name, version, i) ==
  LET a == ingest(s, name, version, i.out) IN
  IF a.pkgs[a.ret].status # TESTING
  THEN [kill_destroy(a, name, i.rmi_ok, i.rm_ok, i.io_ok) EXCEPT !.ret = FALSE]
  ELSE LET b == test_collaborate(a, name, i.run) IN
       IF b.ret # TRUE
       THEN [kill_destroy(b, name, i.rmi_ok, i.rm_ok, i.io_ok) EXCEPT !.ret = FALSE]
       ELSE conscript_install(b, name, i.probe, i.inst,
                              i.toml_ok, i.rmi_ok, i.rm_ok, i.io_ok)

OpsOf(c) == [k \in 1..Len(c) |-> c[k].op]

\* C12: a handle_package call leaves the handler as the primitives called in
\* turn leave it and returns what they return; it returns True exactly when
\* ingest ended in TESTING and test_collaborate and conscript_install both
\* returned True; the primitives it calls are ingest and kill_destroy after a
\* failed ingest, ingest, test_collaborate and kill_destroy after a failed
\* test, and ingest, test_collaborate and conscript_install otherwise, with
\* nothing after conscript_install.
C12_HandlePackageIsComposition ==
  [][last'.op = "handle_package" =>
       LET c == last'.calls
           version == pkgs'[Len(pkgs) + 1].version
           e == PrimitivesInTurn(St, last'.name, version, last'.input)
       IN /\ Effect(St') = Effect(e)
          /\ last'.ret = e.ret
          /\ last'.procs = e.procs
          /\ ~last'.raised
          /\ last'.ret = TRUE <=>
                /\ Len(c) = 3
                /\ c[1] = [op |-> "ingest", ret |-> TESTING]
                /\ c[2] = [op |-> "test_collaborate", ret |-> TRUE]
                /\ c[3] = [op |-> "conscript_install", ret |-> TRUE]
          /\ c[1].op = "ingest"
          /\ IF c[1].ret # TESTING
             THEN OpsOf(c) = <<"ingest", "kill_destroy">>
             ELSE IF c[2].ret = FALSE
                  THEN OpsOf(c) = <<"ingest", "test_collaborate", "kill_destroy">>
                  ELSE OpsOf(c) = <<"ingest", "test_collaborate", "conscript_install">>]_vars

\* C12 witness: a handle_package call returned True, and the record it
\* installed was destroyed and archived.
C12_Witness ==
  /\ last.op = "handle_package"
  /\ last.ret = TRUE
  /\ Len(last.calls) = 3
  /\ Len(history) > 0
  /\ pkgs[Len(pkgs)].status = DESTROYED

\* C13: after a handle_package call whose ingest could not create the
\* sandbox, the record the call created has been FAILED and is FAILED or
\* DESTROYED, its error_log is not empty, the call made no test_collaborate
\* and no conscript_install call, and started neither a sandbox run nor an
\* installer.
C13_FailedIngestStopsWorkflow ==
  (last.op = "handle_package" /\ last.input.out # "ok") =>
     LET id == Len(pkgs) IN
       /\ \E k \in 1..Len(status_log[id]) : status_log[id][k] = FAILED
       /\ pkgs[id].status \in {FAILED, DESTROYED}
       /\ Len(pkgs[id].error_log) > 0
       /\ OpsOf(last.calls) = <<"ingest", "kill_destroy">>
       /\ last.ret = FALSE
       /\ "run" \notin last.procs
       /\ last.procs \cap ({"probe"} \cup InstallerProcs) = {}
       /\ \A i \in installs : i.id # id

\* C13 witness: handle_package returned after a sandbox build that ended with
\* a non-zero status.
C13_Witness ==
  /\ last.op = "handle_package"
  /\ last.input.out = "nonzero"
  /\ "build" \in last.procs
  /\ pkgs[Len(pkgs)].status = DESTROYED

\* C14: a sandbox test run that outlives the validation timeout is a failed
\* validation and no exception: test_collaborate returns False, raises
\* nothing, leaves the record FAILED and its last error_log entry says the
\* validation timed out; validate_package returns a result with passed =
\* False that says the validation timed out.
TimedOutEntries == {"Container validation timed out", "Venv validation timed out"}

C14_TimeoutIsValidationFailure ==
  /\ (/\ last.op = "test_collaborate"
      /\ "run" \in last.procs
      /\ last.input.out = "timeout") =>
        LET log == pkgs[last.id].error_log IN
          /\ ~last.raised
          /\ last.ret = FALSE
          /\ pkgs[last.id].status = FAILED
          /\ Len(log) > 0
          /\ log[Len(log)] \in TimedOutEntries
  /\ (vf.op = "validate_package" /\ vf.out = "timeout") =>
        /\ ~vf.result.raised
        /\ vf.result.passed = FALSE
        /\ vf.result.errors = <<"Validation timed out">>

\* C14 witness: test_collaborate returned from a sandbox run that timed out.
C14_Witness ==
  /\ last.op = "test_collaborate"
  /\ "run" \in last.procs
  /\ last.input.out = "timeout"
  /\ pkgs[last.id].status = FAILED

\* C20: with p tests passed out of t run, the driver's score is p/t (0.0 when
\* t = 0), it exits with status 0 exactly when the score is at least 0.8,
\* and validate_package's passed is True exactly then; 4 of 5 passes and 3
\* of 5 fails.
C20_PassedIffScoreAtLeast08 ==
  /\ (vf.op = "validate_package" /\ vf.out = "completed") =>
        LET p == vf.driver.passed_tests
            t == vf.driver.total_tests
            score == vf.driver.overall_score
        IN /\ 0 <= p /\ p <= t
           /\ IF t = 0 THEN score = Zero ELSE score[1] * t = p * score[2]
           /\ vf.result.passed <=> (t > 0 /\ 5 * p >= 4 * t)
           /\ vf.result.passed <=> ExitStatus(score) = 0
  /\ \A t \in 0..5 : \A p \in 0..t :
        ExitStatus(OverallScore(p, t)) = 0 <=> (t > 0 /\ 5 * p >= 4 * t)
  /\ ExitStatus(OverallScore(4, 5)) = 0
  /\ ExitStatus(OverallScore(3, 5)) = 1

\* C20 witness: the driver ran three tests and two passed (0.67): the
\* validation failed.
C20_Witness ==
  /\ vf.op = "validate_package"
  /\ vf.out = "completed"
  /\ vf.driver.total_tests = 3
  /\ vf.driver.passed_tests = 2
  /\ vf.result.score = 67
  /\ ~vf.result.passed

\* C18: no two of the records created so far (active, replaced by a later
\* ingest of the same name, or archived) have the same sandbox_id, and no two
\* history entries have the same sandbox_id.
C18_SandboxIdsUnique ==
  /\ \A i \in Records : \A j \in Records :
        i # j => pkgs[i].sandbox_id # pkgs[j].sandbox_id
  /\ \A i \in 1..Len(history) : \A j \in 1..Len(history) :
        i # j => history[i].sandbox_id # history[j].sandbox_id

\* C18 witness: a record was replaced by a second ingest of its name without
\* being destroyed, and the second record was archived.
C18_Witness ==
  /\ Len(pkgs) = 2
  /\ pkgs[1].status # DESTROYED
  /\ pkgs[2].status = DESTROYED
  /\ Len(history) > 0

\* C19: the history file never holds more than 1000 entries, and it holds, in
\* the order they were written, the last entries written to it (all of them
\* while there are at most 1000): the entries dropped are the oldest.
C19_HistoryIsRecentArchive ==
  /\ Len(history) <= 1000
  /\ LET n == Len(archived)
         k == IF n < 1000 THEN n ELSE 1000
     IN history = [i \in 1..k |-> archived[n - k + i]]

\* C19 witness: two records were archived on a full history file, so that
\* entries were dropped twice.
C19_Witness ==
  /\ Len(archived) > HistoryCap + 1
  /\ Len(history) = HistoryCap
  /\ history[HistoryCap].sandbox_id = 2
  /\ history[HistoryCap - 1].sandbox_id = 1

\* C15: a call that waits for an external process can always go on, because
\* the process exits or because its timeout expires: no call waits for ever
\* on a process that never exits.
C15_EveryCallReturns ==
  call.state = "waiting" => ENABLED (ProcessExits \/ TimeoutExpires)

\* C16: when a second worker's kill_destroy(name) ran, from its first
\* statement to its return of True, while handle_package(name) was inside
\* test_collaborate, then once both calls have returned no exception has left
\* either, no installer was started, and the name has no active record.
C16_CancelDuringTestIsSafe ==
  (/\ wk["A"].pc = "done" /\ wk["A"].prog = "handle_package"
   /\ wk["B"].pc = "done" /\ wk["B"].prog = "kill_destroy"
   /\ wk["B"].name = wk["A"].name
   /\ wk["B"].during_test
   /\ wk["B"].ret = TRUE) =>
     /\ ~wk["A"].raised
     /\ ~wk["B"].raised
     /\ installs = {}
     /\ active_packages[wk["A"].name] = NoId

\* C17: when two workers have each archived a different package (both
\* kill_destroy calls returned, each history write went through), every
\* entry written is in the history.
C17_NoArchivedEntryLost ==
  (/\ wk["A"].pc = "done" /\ wk["A"].prog = "kill_destroy"
   /\ wk["B"].pc = "done" /\ wk["B"].prog = "kill_destroy"
   /\ wk["A"].name # wk["B"].name) =>
     \A k \in 1..Len(archived) :
       \E i \in 1..Len(history) : history[i] = archived[k]

\* The lines of frag are in text, one after the other.
Includes(text, frag) ==
  \E i \in 0..(Len(text) - Len(frag)) : SubSeq(text, i + 1, i + Len(frag)) = frag

\* C21: with the templates loaded at construction, every generated script
\* includes the basic-import fragment whatever the level; for a web or data
\* package it includes the category fragment exactly at the levels standard
\* and comprehensive; it includes the security-scan fragment exactly at the
\* levels security and comprehensive.
C21_FragmentsByLevel ==
  test_templates = LoadTestTemplates =>
    \A k \in 1..Len(scripts) :
      LET s == scripts[k]
          type == DetectPackageType(s.package_name)
      IN /\ Includes(s.text, BasicTemplate)
         /\ type \in {"web", "data"} =>
              (Includes(s.text, LoadTestTemplates[type])
                 <=> s.validation_level \in {"standard", "comprehensive"})
         /\ Includes(s.text, SecurityTemplate)
              <=> s.validation_level \in {"security", "comprehensive"}

\* C22 (as claimed): the result of validate_package has security_issues
\* exactly when the level is security or comprehensive.
C22_SecurityIssuesIffElevated ==
  vf.op = "validate_package" =>
    (vf.result.security_issues.present
       <=> vf.level \in {"security", "comprehensive"})

\* C22 (amended): the result of validate_package has security_issues exactly
\* when the level is security or comprehensive and the driver ran to its exit
\* (a result made for a timeout or another exception has none); they are then
\* what the scan of the package's files returns, and at no other level is
\* there a scan result.
C22_SecurityIssuesIffScanned ==
  vf.op = "validate_package" =>
    /\ vf.result.security_issues.present
         <=> (vf.level \in {"security", "comprehensive"} /\ vf.out = "completed")
    /\ vf.result.security_issues.present =>
         vf.result.security_issues.issues = security_scan(vf.files)
    /\ vf.level \notin {"security", "comprehensive"} =>
         vf.result.security_issues = NoIssues

\* C22 witness: a comprehensive validation ran to its exit and its result
\* carries the findings of the scan.
C22_Witness ==
  /\ vf.op = "validate_package"
  /\ vf.level = "comprehensive"
  /\ vf.out = "completed"
  /\ vf.result.security_issues.present
  /\ Len(vf.result.security_issues.issues) = 2

\* The files of a scan that could be read.
Scanned == {k \in 1..Len(vf.files) : vf.files[k].readable}

FindingsFor(name) == {k \in 1..Len(vf.findings) : vf.findings[k].file = name}

EvalFindingsFor(name) ==
  {k \in FindingsFor(name) :
     /\ vf.findings[k].category = "eval_patterns"
     /\ vf.findings[k].pattern = EvalPattern}

\* The text has the characters eval( in it.
ContainsEvalLiteral(c) == \E i \in 1..(Len(c) - 1) : c[i] = "eval" /\ c[i + 1] = "("

\* The (category, pattern) pairs that match a text.
MatchingPairs(c) ==
  {pr \in (1..Len(SecurityPatterns)) \X (1..6) :
     /\ pr[2] <= Len(SecurityPatterns[pr[1]].patterns)
     /\ Search(SecurityPatterns[pr[1]].patterns[pr[2]], c)}

RECURSIVE PairsOfFiles(_)
PairsOfFiles(K) ==
  IF K = {} THEN 0
  ELSE LET k == CHOOSE x \in K : TRUE
       IN Cardinality(MatchingPairs(vf.files[k].content)) + PairsOfFiles(K \ {k})

\* C23: after a scan, a file that was read and whose text has eval( in it has
\* exactly one finding of category eval_patterns for the eval pattern under
\* its name, however often eval( occurs; a file that matches no pattern has
\* no finding; the findings under a name are as many as the (category,
\* pattern) pairs that match the files of that name (a file alone with its
\* name: the pairs that match it).
C23_OneFindingPerMatchingPair ==
  vf.op = "_security_scan" =>
    /\ \A k \in Scanned :
         LET f == vf.files[k] IN
         (\A j \in Scanned : vf.files[j].name = f.name => j = k) =>
           /\ ContainsEvalLiteral(f.content) => Cardinality(EvalFindingsFor(f.name)) = 1
           /\ MatchingPairs(f.content) = {} => FindingsFor(f.name) = {}
           /\ Cardinality(FindingsFor(f.name)) = Cardinality(MatchingPairs(f.content))
    /\ \A n \in FileNames :
         Cardinality(FindingsFor(n)) =
           PairsOfFiles({k \in Scanned : vf.files[k].name = n})

\* C23 witness: a file in which eval( occurs twice, not at the start, was
\* scanned and has one finding.
C23_Witness ==
  /\ vf.op = "_security_scan"
  /\ vf.files = <<SourceFile("a.py", <<"medi", "eval", "(", "eval", "(">>, TRUE)>>
  /\ Len(vf.findings) = 1
  /\ vf.findings[1] = Finding("eval_patterns", EvalPattern, "a.py")

\* C24: two generate_test_script calls with the same package name, level and
\* custom fragments returned the same text, whatever was called in between.
C24_SameArgumentsSameText ==
  \A i \in 1..Len(scripts) : \A j \in 1..Len(scripts) :
    (/\ scripts[i].package_name = scripts[j].package_name
     /\ scripts[i].validation_level = scripts[j].validation_level
     /\ scripts[i].custom_tests = scripts[j].custom_tests) =>
       scripts[i].text = scripts[j].text

\* What each backend writes into a record's logs.
ContainerMessages ==
  {"Container sandbox created successfully", "Container build failed",
   "Container sandbox creation failed", "Container validation passed",
   "Container validation failed", "Container validation timed out",
   "Container validation error"}

VenvMessages ==
  {"Virtual environment sandbox created successfully",
   "Venv sandbox creation failed", "Venv validation passed",
   "Venv validation failed", "Venv validation timed out", "Venv validation error"}

MessagesOf(id) ==
  {pkgs[id].error_log[k] : k \in 1..Len(pkgs[id].error_log)}
    \cup {pkgs[id].success_log[k] : k \in 1..Len(pkgs[id].success_log)}

\* C25: the backend is podman if its version check succeeded, otherwise docker
\* if its version check succeeded, otherwise the venv backend; it never
\* changes; every call starts only processes of that backend, every record
\* was created and tested by that backend only, and kill_destroy of an active
\* record removes the image exactly when the backend is a container engine.
BackendAsDetected ==
  /\ container_engine = IF version_checks.podman THEN "podman"
                        ELSE IF version_checks.docker THEN "docker"
                        ELSE NoEngine
  /\ \A id \in Records :
       /\ MessagesOf(id) \cap ContainerMessages # {} => container_engine # NoEngine
       /\ MessagesOf(id) \cap VenvMessages # {} => container_engine = NoEngine
  /\ last.procs \cap {"build", "rmi"} # {} => container_engine # NoEngine
  /\ last.procs \cap {"venv", "sandbox_pip"} # {} => container_engine = NoEngine
  /\ (last.op = "ingest" /\ last.input.out # "mkdir_error") =>
        last.procs = IF container_engine # NoEngine
                     THEN {"build"} ELSE {"venv", "sandbox_pip"}
  /\ (last.op = "kill_destroy" /\ last.id # NoId) =>
        ("rmi" \in last.procs <=> container_engine # NoEngine)

C25_BackendFixedAtConstruction ==
  /\ []BackendAsDetected
  /\ [][container_engine' = container_engine /\ version_checks' = version_checks]_vars

\* C25 witness: both version checks succeeded; a record was created by a
\* podman build, tested in a container and destroyed with its image removed.
C25_Witness ==
  /\ version_checks = [podman |-> TRUE, docker |-> TRUE]
  /\ container_engine = "podman"
  /\ last.op = "kill_destroy"
  /\ last.id # NoId
  /\ "rmi" \in last.procs
  /\ {"Container sandbox created successfully", "Container validation passed"}
       \subseteq MessagesOf(last.id)
  /\ pkgs[last.id].status = DESTROYED

\* C26: a dry-run conscript_install that returns True leaves the dependency
\* list of snakepit.toml as it was.
C26_DryRunLeavesDependencies ==
  [][(/\ last'.op = "conscript_install"
      /\ steps' = steps + 1
      /\ dry_run
      /\ last'.ret = TRUE) => dependencies' = dependencies]_vars

Replaced(id) ==
  /\ id \in Records
  /\ active_packages[pkgs[id].name] # id
  /\ pkgs[id].status # DESTROYED

\* C28: an ingest for a name that has an active record leaves that record,
\* its sandbox directory, its image and the history as they were; and from
\* then on no call (ingest, test_collaborate, kill_destroy, conscript_install
\* on the name, cleanup_all) changes the replaced record, removes its
\* directory or its image, or writes a history entry for it.
C28_ReplacedSandboxLeaks ==
  [][/\ (last'.op = "ingest" /\ steps' = steps + 1 /\ last'.id # NoId) =>
          LET old == last'.id IN
            /\ active_packages'[pkgs[old].name] # old
            /\ pkgs[old].status # DESTROYED
            /\ pkgs'[old] = pkgs[old]
            /\ (old \in dirs') = (old \in dirs)
            /\ (old \in images') = (old \in images)
            /\ history' = history
     /\ \A id \in Records :
          Replaced(id) =>
            /\ Replaced(id)'
            /\ pkgs'[id] = pkgs[id]
            /\ (id \in dirs') = (id \in dirs)
            /\ (id \in images') = (id \in images)
            /\ \A i \in 1..Len(archived') : archived'[i].sandbox_id # id]_vars

\* C28 witness: the first record was replaced by a second ingest of its name,
\* cleanup_all then destroyed and archived the second record, and the first
\* record's sandbox directory and image are still there.
C28_Witness ==
  /\ last.op = "cleanup_all"
  /\ Len(pkgs) = 2
  /\ Replaced(1)
  /\ 1 \in dirs
  /\ 1 \in images
  /\ pkgs[2].status = DESTROYED
  /\ Len(history) = 1
  /\ history[1].sandbox_id = 2

\* C29: when both workers called kill_destroy for the same active name and
\* both calls are over, exactly one returned True, no exception left either
\* call, and the history holds exactly one entry for the record.
C29_OneDestroyWins ==
  (/\ wk["A"].pc = "done" /\ wk["A"].prog = "kill_destroy"
   /\ wk["B"].pc = "done" /\ wk["B"].prog = "kill_destroy"
   /\ wk["A"].name = wk["B"].name) =>
     /\ (wk["A"].ret = TRUE) # (wk["B"].ret = TRUE)
     /\ ~wk["A"].raised
     /\ ~wk["B"].raised
     /\ Cardinality({i \in 1..Len(history) : history[i].name = wk["A"].name}) = 1

\* C30: test_collaborate, kill_destroy and conscript_install called for a
\* name without active record return False, raise nothing, start no process
\* and leave the active set, every record, the history, the sandbox
\* directories and images, the dependency list and the installs unchanged.
C30_UnknownNameIsNoOp ==
  [][(/\ last'.op \in {"test_collaborate", "kill_destroy", "conscript_install"}
      /\ steps' = steps + 1
      /\ last'.id = NoId) =>
        /\ last'.ret = FALSE
        /\ ~last'.raised
        /\ last'.procs = {}
        /\ active_packages' = active_packages
        /\ pkgs' = pkgs
        /\ status_log' = status_log
        /\ history' = history
        /\ archived' = archived
        /\ dirs' = dirs
        /\ images' = images
        /\ dependencies' = dependencies
        /\ installs' = installs]_vars

\* C30 witness: test_collaborate was called for a name whose record had been
\* destroyed, and returned False.
C30_Witness ==
  /\ last.op = "test_collaborate"
  /\ last.id = NoId
  /\ last.ret = FALSE
  /\ Len(pkgs) = 1
  /\ pkgs[1].status = DESTROYED
  /\ Len(history) = 1
\* C31: with a container engine, a kill_destroy of an active record whose
\* image-removal command fails, times out or cannot be started still returns
\* True without raising: the command was started, the sandbox directory is
\* gone, the record is DESTROYED, no longer active and (the history file being
\* writable) archived.  The removal of the directory itself succeeding is the
\* case at hand (rm_ok); the image is left behind.
C31_ImageRemovalFailureSwallowed ==
  (/\ last.op = "kill_destroy"
   /\ last.id # NoId
   /\ container_engine # NoEngine
   /\ ~last.input.rmi_ok
   /\ last.input.rm_ok) =>
     /\ "rmi" \in last.procs
     /\ last.ret = TRUE
     /\ ~last.raised
     /\ last.id \notin dirs
     /\ pkgs[last.id].status = DESTROYED
     /\ active_packages[last.name] = NoId
     /\ (last.input.io_ok =>
           \E i \in 1..Len(archived) : archived[i].sandbox_id = last.id)

\* C31 witness: a kill_destroy whose image removal failed has returned True
\* for a record that had a sandbox directory and a built image; the image is
\* still there, the directory is not.
C31_Witness ==
  /\ last.op = "kill_destroy"
  /\ last.id # NoId
  /\ container_engine # NoEngine
  /\ ~last.input.rmi_ok
  /\ last.ret = TRUE
  /\ last.id \in images
  /\ last.id \notin dirs
  /\ \E i \in 1..Len(archived) : archived[i].sandbox_id = last.id

\* C32: every specifier given to the external installer for a record is the
\* specifier that was installed into that record's sandbox at ingest, and both
\* are `name==version` when the record has a version and the bare name
\* otherwise.
C32_InstalledSpecifierIsValidatedOne ==
  /\ \A i \in installs :
       /\ \E b \in sandbox_installs : b.id = i.id
       /\ \A b \in sandbox_installs : b.id = i.id => b.spec = i.spec
       /\ i.spec = IF pkgs[i.id].version # ""
                   THEN <<pkgs[i.id].name, "==", pkgs[i.id].version>>
                   ELSE <<pkgs[i.id].name>>
  /\ \A b \in sandbox_installs :
       b.spec = IF pkgs[b.id].version # ""
                THEN <<pkgs[b.id].name, "==", pkgs[b.id].version>>
                ELSE <<pkgs[b.id].name>>

\* C32 witness: the installer was started for a record with a version, after
\* an earlier record of the same name was ingested with another specifier.
C32_Witness ==
  \E i \in installs :
    /\ pkgs[i.id].version # ""
    /\ \E b \in sandbox_installs : b.id # i.id /\ b.spec # i.spec

\* C33: the score of every result of validate_package lies in [0,1] (0 to 100
\* hundredths), whatever the package under test printed before the summary
\* line; and an output in which the score pattern matches nowhere gives 0.0.
C33_ScoreInUnitInterval ==
  /\ vf.op = "validate_package" =>
       /\ vf.result.score >= 0
       /\ vf.result.score <= 100
  /\ \A p \in PrintedTexts, q \in PrintedTexts :
       (\A i \in 1..Len(p \o q) : ~ScoreMatchAt(p \o q, i)) =>
          extract_score_from_output(p \o q) = 0

\* C34: for a package whose import succeeds, whose version and attribute
\* checks succeed and whose import takes under 5 seconds, the generated
\* program exits with status 0 at each of the five validation levels.
C34_HealthyPackageExitsZero ==
  (/\ vf.op = "validate_package"
   /\ vf.out = "completed"
   /\ vf.package = [basic |-> "pass", ext |-> "ok", perf |-> "fast"]) =>
     /\ DriverMain(vf.driver).returncode = 0
     /\ vf.result.passed

\* The installer was started by the call just made.
InstallerStarted(l) == l.procs \cap InstallerProcs # {}

\* The statuses a record has had, in order, contain FAILED.
EverFailed(log) == \E i \in 1..Len(log) : log[i] = FAILED

\* C35 (as claimed): once a record's status has been FAILED every later
\* status of it is DESTROYED, and no call starts the installer for it.
C35_FailedNeverInstalled ==
  /\ [](\A id \in Records :
          \A i \in 1..Len(status_log[id]) : \A j \in 1..Len(status_log[id]) :
            (status_log[id][i] = FAILED /\ i < j) => status_log[id][j] = DESTROYED)
  /\ [][InstallerStarted(last') => ~EverFailed(status_log[last'.id])]_vars

\* C35 (amended): a FAILED status is followed only by COLLABORATING (a new
\* test_collaborate) or DESTROYED; a conscript_install that finds its record
\* FAILED returns False and starts no process; and whenever the installer is
\* started for a record, the record's two latest statuses before the call are
\* COLLABORATING and APPROVED: a record that once failed is installed only
\* after a later test of it passed.
C35_FailedInstalledOnlyAfterPassedRetest ==
  /\ [](/\ \A id \in Records :
            \A i \in 1..(Len(status_log[id]) - 1) :
              status_log[id][i] = FAILED =>
                status_log[id][i + 1] \in {COLLABORATING, DESTROYED}
        /\ (last.op = "conscript_install" /\ last.status = FAILED) =>
              (last.ret = FALSE /\ last.procs = {}))
  /\ [][InstallerStarted(last') =>
          LET log == status_log[last'.id]
              n == Len(log)
          IN /\ n >= 2
             /\ log[n] = APPROVED
             /\ log[n - 1] = COLLABORATING]_vars

\* C35 witness: the installer has been started for a record that was FAILED
\* and was approved by a later test.
C35_Witness ==
  /\ last.op = "conscript_install"
  /\ InstallerStarted(last)
  /\ \E i \in 1..Len(status_log[last.id]) : \E j \in 1..Len(status_log[last.id]) :
       /\ i < j
       /\ status_log[last.id][i] = FAILED
       /\ status_log[last.id][j] = APPROVED

\* C36: once a record has status DESTROYED and has been archived, no step of
\* any worker changes its status, also not a test_collaborate or a
\* conscript_install that was in flight when kill_destroy ran.
C36_DestroyedIsAbsorbing ==
  [][\A id \in Records :
       (/\ pkgs[id].status = DESTROYED
        /\ \E i \in 1..Len(archived) : archived[i].sandbox_id = id) =>
          pkgs'[id].status = DESTROYED]_vars

\* The statuses an active record is seen in between two handler calls.
RestingStatuses == {TESTING, APPROVED, FAILED, CONSCRIPTED}

\* The status of the record held for name n.
ActiveStatus(n) == pkgs[active_packages[n]].status

\* C37: with one caller, between two handler calls every active record is
\* TESTING, APPROVED, FAILED or CONSCRIPTED (never PENDING, INGESTING,
\* COLLABORATING or DESTROYED); an active record is CONSCRIPTED only with its
\* sandbox directory still there, and it becomes so only in a call that
\* installed it and whose implicit kill_destroy failed on removing the
\* directory.
C37_ActiveStatusesBetweenCalls ==
  /\ [](\A n \in Names :
          active_packages[n] # NoId =>
            /\ ActiveStatus(n) \in RestingStatuses
            /\ ActiveStatus(n) = CONSCRIPTED => active_packages[n] \in dirs)
  /\ [][\A n \in Names :
          (/\ active_packages'[n] # NoId
           /\ pkgs'[active_packages'[n]].status = CONSCRIPTED
           /\ ~(active_packages[n] = active_packages'[n]
                 /\ ActiveStatus(n) = CONSCRIPTED)) =>
             /\ last'.op \in {"conscript_install", "handle_package"}
             /\ last'.name = n
             /\ last'.ret = TRUE
             /\ ~last'.input.rm_ok]_vars

\* C37 witness: an active record is CONSCRIPTED after a conscript_install
\* whose implicit kill_destroy could not remove the sandbox directory.
C37_Witness ==
  /\ last.op = "conscript_install"
  /\ last.ret = TRUE
  /\ ~last.input.rm_ok
  /\ active_packages[last.name] = last.id
  /\ pkgs[last.id].status = CONSCRIPTED

\* The kill_destroy calls a cleanup_all made for name n.
CallsFor(l, n) == {i \in 1..Len(l.calls) : l.calls[i].name = n}

\* C38: a cleanup_all call returns without raising after calling
\* kill_destroy exactly once for each name that was active when it started
\* and for no other name; on return the active names are exactly those whose
\* kill_destroy returned False, their records are the ones held before, and
\* no name is active if no removal of a sandbox directory failed.
C38_CleanupCallsDestroyOncePerName ==
  [][last'.op = "cleanup_all" =>
       LET l == last'
           started == {n \in CallNames : active_packages[n] # NoId}
           left == {n \in CallNames : active_packages'[n] # NoId}
       IN /\ ~l.raised
          /\ Len(l.calls) = Cardinality(started)
          /\ \A i \in 1..Len(l.calls) :
               l.calls[i].op = "kill_destroy" /\ l.calls[i].name \in started
          /\ \A n \in started : Cardinality(CallsFor(l, n)) = 1
          /\ left = {n \in started : \E i \in CallsFor(l, n) : ~l.calls[i].ret}
          /\ \A n \in left : active_packages'[n] = active_packages[n]
          /\ (\A n \in started : l.input.rm_ok[n]) => left = {}]_vars

\* C38 witness: cleanup_all has returned after two kill_destroy calls, one
\* of which failed: that name is still active, the other is not.
C38_Witness ==
  /\ last.op = "cleanup_all"
  /\ Len(last.calls) = 2
  /\ \E i \in 1..2 : \E j \in 1..2 :
       /\ last.calls[i].ret /\ ~last.calls[j].ret
       /\ active_packages[last.calls[i].name] = NoId
       /\ active_packages[last.calls[j].name] # NoId

\* The record a validate-only call created (the newest one).
Validated == Len(pkgs')

\* C39: a validate-only call (validate_only or cmd_validate) starts no
\* installer and, on each of its paths (failed ingest, failed test, passed
\* test), leaves no active record for the name and neither sandbox directory
\* nor image of the record it created; dry_run is afterwards what it was
\* before.  (Stated for clean-ups in which neither the image removal nor the
\* directory removal fails.)
C39_ValidateOnlyLeavesNothing ==
  [][(/\ last'.op \in {"validate_only", "cmd_validate"}
      /\ last'.input.rmi_ok
      /\ last'.input.rm_ok) =>
        /\ last'.procs \cap InstallerProcs = {}
        /\ installs' = installs
        /\ active_packages'[last'.name] = NoId
        /\ Validated \notin dirs'
        /\ Validated \notin images'
        /\ dry_run' = dry_run]_vars

====
